---- MODULE Spec2Model ----
(***************************************************************************)
(* A model of the pyroswiki topic rendering pipeline                       *)
(* (app/services/renderer.py), the plugin hook dispatcher                  *)
(* (app/services/plugins.py) and the topics API routes that call them      *)
(* (app/routes/topics.py, app/services/topics.py, app/services/acl.py).    *)
(*                                                                         *)
(* Text is a sequence of tokens.  A token is a record whose field k names  *)
(* its kind: source text, a %MACRO%, a [[bracket link]], a TML span, a     *)
(* Markdown span, or an HTML element.  URLs and link targets are sequences *)
(* of lexemes ("https://", "e.org", ".", ...), so that prefix tests and    *)
(* splitting are computed, not assumed.                                    *)
(***************************************************************************)
EXTENDS Integers, Sequences, FiniteSets, TLC

VARIABLES
    plugins,    \* PluginManager._plugins: the registered plugins, in order
    stack,      \* per render call: the chain of nested render() frames
    topics,     \* table topic_versions: per topic name, its version rows
    acls,       \* table acl: per resource, its entries
    resp,       \* what the last request did and returned
    builtins_registered,    \* RenderPipeline._builtins_registered (class attribute)
    macro_registry,         \* macro_registry: one entry per register_all_builtins()
    pipelines,              \* the RenderPipeline instances constructed so far
    fncall,     \* the last call of a helper function: its arguments and result
    reset,      \* tables users and password_reset_tokens, and the clock
    sessions    \* per update_topic call in flight: its database session

vars == <<plugins, stack, topics, acls, resp, builtins_registered, macro_registry,
          pipelines, fncall, reset, sessions>>
boot == <<builtins_registered, macro_registry, pipelines>>
store == <<topics, acls, resp, boot, fncall, reset, sessions>>

(***************************************************************************)
(* Bounds of the model.                                                    *)
(***************************************************************************)
MaxPlugins == 2     \* at most this many plugins are registered
MaxStack == 4       \* at most this many nested render() frames are explored
MaxPipelines == 2   \* at most this many RenderPipeline instances are kept

None == "None"      \* Python's None

(***************************************************************************)
(* Tokens.                                                                 *)
(***************************************************************************)
Text(v) == [k |-> "text", v |-> v]
Macro(name, arg) == [k |-> "macro", name |-> name, arg |-> arg]
Bracket(target, label) == [k |-> "bracket", target |-> target, label |-> label]
Tml(style, v) == [k |-> "tml", style |-> style, v |-> v]
MdLink(display, url) == [k |-> "mdlink", display |-> display, url |-> url]
Html(tag, v) == [k |-> "html", tag |-> tag, v |-> v]
Attr(name, value) == [name |-> name, value |-> value]
Anchor(before, href, after, v) ==
    [k |-> "a", before |-> before, href |-> href, after |-> after, v |-> v]

RECURSIVE Join(_)
Join(parts) == IF parts = <<>> THEN "" ELSE Head(parts) \o Join(Tail(parts))

(***************************************************************************)
(* The read-only environment of a render call: the pipeline configuration  *)
(* and the stored topics that %INCLUDE% can fetch.                         *)
(***************************************************************************)
BaseUrl == <<"http://", "wiki.example">>    \* RenderPipeline.base_url
Webs == {"Main", "Sandbox"}
Users == {"alice", "bob"}

\* ctx.current_user.get("username", ...) of a user dict
UserName(u) == u

StoredContent ==
    [ Empty   |-> <<>>,
      Home    |-> <<Macro("USERNAME", ""), Tml("bold", "hi"), Text("WebHome"),
                    Bracket(<<"Bar">>, <<>>)>>,
      Links   |-> <<Bracket(<<"https://", "e.org">>, <<>>),
                    Bracket(<<"Main", ".", "Foo">>, <<"Label">>)>>,
      Profile |-> <<Macro("USERNAME", ""), Macro("NOSUCH", "")>>,
      Host    |-> <<Macro("INCLUDE", "Profile"), Macro("INCLUDE", "Empty"),
                    Macro("INCLUDE", "Gone")>>,
      Loop    |-> <<Text("again"), Macro("INCLUDE", "Loop")>> ]

Topics == DOMAIN StoredContent

(***************************************************************************)
(* Stage 3: bracket links.  A bracket token holds the two groups of a      *)
(* match of _BRACKET_LINK_RE as sequences of lexemes: the target, never    *)
(* empty, and the label, empty when the second bracket pair is absent.     *)
(***************************************************************************)

\* str.strip(): without the whitespace at both ends
RECURSIVE strip(_)
strip(s) ==
    IF s = <<>> THEN s
    ELSE IF Head(s) = " " THEN strip(Tail(s))
    ELSE IF s[Len(s)] = " " THEN strip(SubSeq(s, 1, Len(s) - 1))
    ELSE s

\* a split on the last "." of target
LastDot(target) ==
    IF \E i \in 1..Len(target) : target[i] = "."
    THEN CHOOSE i \in 1..Len(target) :
            /\ target[i] = "."
            /\ \A j \in (i + 1)..Len(target) : target[j] # "."
    ELSE 0

\* the index of the first "." lexeme of target, 0 when there is none
FirstDot(target) ==
    IF \E i \in 1..Len(target) : target[i] = "."
    THEN CHOOSE i \in 1..Len(target) :
            /\ target[i] = "."
            /\ \A j \in 1..(i - 1) : target[j] # "."
    ELSE 0

BracketReplace(tok, default_web, base_url) ==
    LET target == strip(tok.target)
        label == strip(tok.label)
        display == IF label # <<>> THEN Join(label) ELSE Join(target)
        dot == FirstDot(target)
        web_part == IF dot > 0 THEN Join(SubSeq(target, 1, dot - 1)) ELSE default_web
        topic_part == IF dot > 0 THEN Join(SubSeq(target, dot + 1, Len(target)))
                      ELSE Join(target)
    IN  IF target # <<>> /\ Head(target) \in {"http://", "https://", "ftp://"}
        THEN MdLink(display, target)
        ELSE MdLink(display, base_url \o <<"/view/", web_part, "/", topic_part>>)

expand_bracket_links(text, default_web, base_url) ==
    [i \in 1..Len(text) |->
        IF text[i].k = "bracket"
        THEN BracketReplace(text[i], default_web, base_url)
        ELSE text[i]]

(***************************************************************************)
(* Stage 3b: TML to Markdown.                                              *)
(***************************************************************************)

tml_to_markdown(text) ==
    [i \in 1..Len(text) |->
        IF text[i].k = "tml"
        THEN [k |-> "md", v |-> text[i].v,
              style |-> CASE text[i].style = "bolditalic" -> "fivestars"
                          [] text[i].style = "bold" -> "strong"
                          [] text[i].style = "italic" -> "em"
                          [] OTHER -> text[i].style]
        ELSE text[i]]

\* _has_user_macros: the content holds a macro whose output depends on the viewer
USER_SPECIFIC_MACROS ==
    {"WIKIUSERNAME", "WIKINAME", "USERNAME", "USERINFO", "GROUPS", "ISMEMBER"}

has_user_macros(content) ==
    \E i \in 1..Len(content) :
        content[i].k = "macro" /\ content[i].name \in USER_SPECIFIC_MACROS

(***************************************************************************)
(* Stage 4: Markdown to HTML (the Markdown engine is a dependency; it is   *)
(* modelled on the spans and links the earlier stages emit).               *)
(***************************************************************************)
HAS_MISTUNE == TRUE

render_markdown(text) ==
    IF HAS_MISTUNE
    THEN [i \in 1..Len(text) |->
            CASE text[i].k = "mdlink" ->
                    Anchor(<<>>, text[i].url, <<>>, text[i].display)
              [] text[i].k = "md" -> Html(text[i].style, text[i].v)
              [] OTHER -> text[i]]
    ELSE <<Html("pre", text)>>

(***************************************************************************)
(* Stage 5: WikiWord auto-linking.  _topic_exists answers True without a   *)
(* data-access handle and when the query raises; a WikiWord is linked      *)
(* whatever the answer.                                                    *)
(***************************************************************************)
topic_exists(db, web, topic) ==
    IF db = None THEN TRUE
    ELSE IF db = "raises" THEN TRUE
    ELSE topic \in Topics

process_html(html, base_url, default_web) ==
    [i \in 1..Len(html) |->
        IF html[i].k = "text" /\ html[i].v \in {"WebHome"}
        THEN Anchor(<<>>, base_url \o <<"/view/", default_web, "/", html[i].v>>,
                    <<>>, html[i].v)
        ELSE html[i]]

(***************************************************************************)
(* External-link hardening.  The pattern matches an anchor whose quoted    *)
(* href starts with http:// or https://; every anchor of the model quotes  *)
(* its href.  "target=" in (before + after).lower() is a substring test:   *)
(* it holds of an attribute whose text contains target=, which among the   *)
(* attribute names of the model are target and data-target.                *)
(***************************************************************************)

ContainsTargetEq(attr) == attr.name \in {"target", "data-target"}

ExternalLinkMatch(tok) == tok.k = "a" /\ Head(tok.href) \in {"http://", "https://"}

Rewrite(tok) ==
    LET full == tok.before \o tok.after
    IN  IF \E i \in 1..Len(full) : ContainsTargetEq(full[i])
        THEN tok
        ELSE [tok EXCEPT !.after = @ \o <<Attr("target", "_blank"),
                                          Attr("rel", "noopener noreferrer")>>]

add_external_link_targets(html) ==
    [i \in 1..Len(html) |->
        IF ExternalLinkMatch(html[i]) THEN Rewrite(html[i]) ELSE html[i]]

(***************************************************************************)
(* Plugins.  A plugin is external code; three behaviours stand for it:     *)
(*   Signature  pre_render appends a TML span, post_render appends a line  *)
(*              naming the web, topic and current user of its context;     *)
(*   Faulty     both render hooks raise an Exception;                      *)
(*   Promo      keeps BasePlugin.pre_render, post_render appends anchors.  *)
(***************************************************************************)

Returned(value) == [raised |-> FALSE, value |-> value]
Raised == [raised |-> TRUE]


SeenBy(ctx) ==
    Join(<<ctx.web, ".", ctx.topic, ":",
           IF ctx.current_user # None THEN UserName(ctx.current_user) ELSE "guest">>)

\* plugin.pre_render(text, ctx) / plugin.post_render(html, ctx)
CallHook(kind, hook, text, ctx) ==
    CASE kind = "Faulty" -> Raised
      [] kind = "Signature" /\ hook = "pre_render" ->
            Returned(text \o <<Tml("italic", "signed")>>)
      [] kind = "Signature" /\ hook = "post_render" ->
            Returned(text \o <<Text(SeenBy(ctx))>>)
      [] kind = "Promo" /\ hook = "post_render" ->
            Returned(text \o
                << Anchor(<<Attr("data-target", "#promo")>>, <<"https://", "ads.example">>,
                          <<>>, "promo"),
                   Anchor(<<>>, <<"https://", "ads.example">>,
                          <<Attr("target", "_self")>>, "same tab"),
                   Anchor(<<Attr("class", "local")>>, <<"/view/", "Main", "/", "WebHome">>,
                          <<>>, "home") >>)
      [] OTHER -> Returned(text)

\* a dispatcher that walks the plugin list from its end
PluginAtReversed(i) == plugins[Len(plugins) + 1 - i]

\* for plugin in self._plugins: the plugin of the i-th iteration
PluginAt(i) == plugins[i]

\* a dispatcher without the try/except
NotCaught(r) == FALSE

\* except Exception as exc: logger.error(...)
Caught(r) == r.raised

\* text = await plugin.pre_render(text, ctx): the text after one iteration
AfterHook(text, r) == IF r.raised THEN text ELSE r.value

\* the result of dispatching `hook` to the plugins ps in order, each plugin
\* given what the one before returned, a raising plugin leaving it as it was
RECURSIVE Pipelined(_, _, _, _)
Pipelined(ps, hook, text, ctx) ==
    IF ps = <<>> THEN text
    ELSE Pipelined(Tail(ps), hook, AfterHook(text, CallHook(Head(ps), hook, text, ctx)), ctx)

(***************************************************************************)
(* MacroContext and RenderPipeline._make_context.                          *)
(***************************************************************************)
NoCtx == [built |-> FALSE]

MacroContext(web, topic, topic_id, base_url, current_user, db) ==
    [ built |-> TRUE, web |-> web, topic |-> topic, topic_id |-> topic_id,
      base_url |-> base_url, current_user |-> current_user, db |-> db,
      include_depth |-> 0 ]

make_context(web, topic, topic_id, current_user, raw_content) ==
    MacroContext(web, topic, topic_id, BaseUrl, current_user, "db")

(***************************************************************************)
(* Macro handlers.  USERNAME is macro_userinfo.username_macro; a name      *)
(* without a handler is left as the literal text.  %INCLUDE% consults the  *)
(* include depth of its context, gives up with a visible marker at the     *)
(* maximum, and otherwise renders the included topic through               *)
(* ctx._render_fn with a child context one level deeper.  The handler and  *)
(* the expander are not part of app/services/renderer.py; they follow the  *)
(* specification, which names 10 as an example of the maximum; the model   *)
(* takes 2, any value of at least 1 giving the same behaviour.             *)
(***************************************************************************)
MAX_INCLUDE_DEPTH == 2

username_macro(ctx) ==
    IF ctx.current_user # None THEN UserName(ctx.current_user) ELSE "guest"

IncludeRecurses(tok, ctx) ==
    /\ tok.k = "macro"
    /\ tok.name = "INCLUDE"
    /\ ctx.include_depth < MAX_INCLUDE_DEPTH
    /\ tok.arg \in Topics


\* what a handler that does not recurse puts in place of the occurrence
HandlerOutput(tok, ctx) ==
    CASE tok.k # "macro" -> <<tok>>
      [] tok.k = "macro" /\ tok.name = "USERNAME" -> <<Text(username_macro(ctx))>>
      [] tok.k = "macro" /\ tok.name = "INCLUDE" ->
            IF ctx.include_depth >= MAX_INCLUDE_DEPTH
            THEN <<Html("span", "include depth exceeded")>>
            ELSE <<Html("span", "include: topic not found")>>
      [] OTHER -> <<tok>>

(***************************************************************************)
(* What a render call returns when nothing else runs: the stages composed  *)
(* as functions.                                                           *)
(***************************************************************************)
RECURSIVE RenderAlone(_, _, _, _, _)
RECURSIVE ExpandAlone(_, _, _)

ExpandAlone(text, ctx, pm) ==
    IF text = <<>> THEN <<>>
    ELSE (IF IncludeRecurses(Head(text), ctx)
          THEN RenderAlone(ctx.web, Head(text).arg, StoredContent[Head(text).arg],
                           ctx.current_user, pm)
          ELSE HandlerOutput(Head(text), ctx))
         \o ExpandAlone(Tail(text), ctx, pm)

RenderAlone(web, topic, content, user, pm) ==
    IF content = <<>> THEN <<>>
    ELSE LET ctx == make_context(web, topic, None, user, content)
             pre == IF pm THEN Pipelined(plugins, "pre_render", content, ctx) ELSE content
             expanded == ExpandAlone(pre, ctx, pm)
             html == process_html(
                        render_markdown(tml_to_markdown(
                            expand_bracket_links(expanded, web, BaseUrl))),
                        BaseUrl, web)
             post == IF pm THEN Pipelined(plugins, "post_render", html, ctx) ELSE html
         IN  add_external_link_targets(post)

(***************************************************************************)
(* RenderPipeline.__init__.  The constructor has no await: it runs to its  *)
(* end before any other coroutine does.  register_all_builtins() adds the  *)
(* built-in handlers to the module-level registry; the registry is kept as *)
(* the list of these additions.                                            *)
(***************************************************************************)
BuiltinMacros == USER_SPECIFIC_MACROS \cup {"INCLUDE", "IF"}

register_all_builtins(registry) == Append(registry, BuiltinMacros)

\* a constructor without the one-time flag
AlwaysBootstrap == TRUE

\* if not RenderPipeline._builtins_registered:
NeedsBootstrap == ~builtins_registered

\* the class attribute and the registry after one construction
Bootstrap ==
    /\ macro_registry' = IF NeedsBootstrap THEN register_all_builtins(macro_registry)
                         ELSE macro_registry
    /\ builtins_registered' = IF NeedsBootstrap THEN TRUE ELSE builtins_registered

\* RenderPipeline(base_url=..., db=..., plugin_manager=...), the instance kept
Construct(pm) ==
    /\ Len(pipelines) < MaxPipelines
    /\ Bootstrap
    /\ pipelines' = Append(pipelines, [pm |-> pm])
    /\ UNCHANGED <<plugins, stack, reset, sessions, topics, acls, resp, fncall>>

\* _get_pipeline(db) / _pipeline(db) in a request that renders: an instance
\* is constructed, used for one render and dropped
get_pipeline(rendering) ==
    /\ IF rendering THEN Bootstrap ELSE UNCHANGED <<builtins_registered, macro_registry>>
    /\ UNCHANGED pipelines

(***************************************************************************)
(* RenderPipeline.render as a state machine.  A frame is one activation of *)
(* render(): its arguments, its locals (raw, ctx, text), its position pc,  *)
(* and a record of what it did (trace: the stages run with their input and *)
(* output; hooks: the plugin hooks called; checks: the existence checks).  *)
(***************************************************************************)
StageOrder ==
    << "PreRenderHooks", "MacroExpand", "BracketLinks", "TmlNormalize",
       "MarkdownToHtml", "WikiWordLink", "PostRenderHooks" >>

\* render() with the TML normalisation left out
NextStageSkipsTml(stage) ==
    CASE stage = "PreRenderHooks" -> "MacroExpand"
      [] stage = "MacroExpand" -> "BracketLinks"
      [] stage = "BracketLinks" -> "MarkdownToHtml"
      [] stage = "MarkdownToHtml" -> "WikiWordLink"
      [] stage = "WikiWordLink" -> "PostRenderHooks"
      [] OTHER -> "Done"

\* the statement order of render(): the stage that runs after `stage`
NextStage(stage) ==
    CASE stage = "PreRenderHooks" -> "MacroExpand"
      [] stage = "MacroExpand" -> "BracketLinks"
      [] stage = "BracketLinks" -> "TmlNormalize"
      [] stage = "TmlNormalize" -> "MarkdownToHtml"
      [] stage = "MarkdownToHtml" -> "WikiWordLink"
      [] stage = "WikiWordLink" -> "PostRenderHooks"
      [] OTHER -> "Done"

\* a render() without the short-circuit
NeverEmpty(raw) == FALSE

\* if not raw: return ""
IsEmpty(raw) == raw = <<>>

\* render(web, topic, content, current_user, topic_id, preloaded_content) up to
\* its first await, by a pipeline with (pm) or without a plugin manager;
\* depth is the include depth of the child context of the caller (0 at top level)
EnterRender(web, topic, content, current_user, preloaded, pm, depth) ==
    LET raw == IF preloaded # <<>> THEN preloaded ELSE content
        base == [ web |-> web, topic |-> topic, user |-> current_user, pm |-> pm,
                  depth |-> depth, raw |-> raw, idx |-> 1, out |-> <<>>,
                  stage_in |-> raw, trace |-> <<>>, hooks |-> <<>>,
                  checks |-> <<>>, hardened |-> 0, harden_in |-> <<>> ]
    IN  IF IsEmpty(raw)
        THEN base @@ [pc |-> "Done", ctx |-> NoCtx, text |-> <<>>, result |-> <<>>]
        ELSE base @@ [ pc |-> "PreRenderHooks",
                       ctx |-> make_context(web, topic, None, current_user, raw),
                       text |-> raw, result |-> <<>> ]

Top(c) == stack[c][Len(stack[c])]
Active(c) == stack[c] # <<>>
SetTop(c, f) == [stack EXCEPT ![c] = [@ EXCEPT ![Len(@)] = f]]

\* a context kept where every call of the process finds it
SharedContext(c) ==
    IF \E d \in DOMAIN stack : Active(d) /\ Top(d).ctx.built
    THEN Top(CHOOSE d \in DOMAIN stack :
                /\ Active(d) /\ Top(d).ctx.built
                /\ \A e \in DOMAIN stack : (Active(e) /\ Top(e).ctx.built) => d <= e).ctx
    ELSE Top(c).ctx

\* ctx = self._make_context(...): the local ctx of the running render()
CurrentContext(c) == Top(c).ctx

\* the argument every stage is given: the local `text` (`html` after stage 4)
StageInput(f) == f.text


\* a stage has run: record it and move to the next statement
Advance(f, stage, input, output) ==
    [f EXCEPT !.trace = Append(@, [stage |-> stage, in |-> input, out |-> output]),
              !.text = output, !.stage_in = output,
              !.pc = NextStage(stage), !.idx = 1, !.out = <<>>]

\* if self.plugin_manager and hasattr(self.plugin_manager, hook):
\* a PluginManager defines __len__, so one without plugins is falsy
UsesManager(f) == f.pm /\ Len(plugins) > 0

\* one iteration of PluginManager.pre_render / post_render, given ctx
HookStep(f, hook, ctx) ==
    LET r == CallHook(PluginAt(f.idx), hook, f.text, ctx)
        call == [ hook |-> hook, i |-> f.idx, plugin |-> PluginAt(f.idx),
                  in |-> f.text, raised |-> r.raised,
                  out |-> AfterHook(f.text, r), seen |-> SeenBy(ctx) ]
    IN  IF r.raised /\ ~Caught(r)
        THEN [f EXCEPT !.hooks = Append(@, call), !.pc = "Raised"]
        ELSE [f EXCEPT !.hooks = Append(@, call), !.text = AfterHook(f.text, r),
                       !.idx = @ + 1]

(***************************************************************************)
(* Actions.                                                                *)
(***************************************************************************)
\* PluginManager.register / _load_file, before any request is served
Register(p) ==
    /\ Len(plugins) < MaxPlugins
    /\ \A c \in DOMAIN stack : ~Active(c)
    /\ plugins' = Append(plugins, p)
    /\ UNCHANGED <<stack, store>>

\* a caller invokes pipeline.render(web, topic, content, current_user=user)
RenderCall(c, web, topic, user, pm) ==
    /\ ~Active(c)
    /\ stack' = [stack EXCEPT ![c] =
                    <<EnterRender(web, topic, StoredContent[topic], user, <<>>, pm, 0)>>]
    /\ UNCHANGED <<plugins, store>>

PreRenderHook(c) ==
    /\ Active(c)
    /\ Top(c).pc = "PreRenderHooks"
    /\ UsesManager(Top(c))
    /\ Top(c).idx <= Len(plugins)
    /\ stack' = SetTop(c, HookStep(Top(c), "pre_render", CurrentContext(c)))
    /\ UNCHANGED <<plugins, store>>

PreRenderReturn(c) ==
    /\ Active(c)
    /\ Top(c).pc = "PreRenderHooks"
    /\ ~UsesManager(Top(c)) \/ Top(c).idx > Len(plugins)
    /\ stack' = SetTop(c, Advance(Top(c), "PreRenderHooks", Top(c).stage_in,
                                  StageInput(Top(c))))
    /\ UNCHANGED <<plugins, store>>

\* the expander replaces one occurrence whose handler does not recurse
ExpandToken(c) ==
    LET f == Top(c) IN
    /\ Active(c)
    /\ f.pc = "MacroExpand"
    /\ f.idx <= Len(f.text)
    /\ ~IncludeRecurses(f.text[f.idx], CurrentContext(c))
    /\ stack' = SetTop(c, [f EXCEPT !.out = @ \o HandlerOutput(f.text[f.idx],
                                                                CurrentContext(c)),
                                    !.idx = @ + 1])
    /\ UNCHANGED <<plugins, store>>

\* the %INCLUDE% handler awaits ctx._render_fn(web, topic, child_ctx, content),
\* which is RenderPipeline._include_render
IncludeCall(c) ==
    LET f == Top(c)
        tok == f.text[f.idx]
        ctx == CurrentContext(c)
        child_ctx == [ctx EXCEPT !.topic = tok.arg, !.include_depth = @ + 1]
        preloaded == StoredContent[tok.arg]
    IN
    /\ Active(c)
    /\ f.pc = "MacroExpand"
    /\ f.idx <= Len(f.text)
    /\ IncludeRecurses(tok, ctx)
    /\ Len(stack[c]) < MaxStack
    /\ stack' = [stack EXCEPT ![c] =
                    Append(@, EnterRender(ctx.web, tok.arg, preloaded,
                                          child_ctx.current_user, preloaded,
                                          f.pm, child_ctx.include_depth))]
    /\ UNCHANGED <<plugins, store>>

\* the nested render returns its HTML to the handler, which returns it
IncludeReturn(c) ==
    LET n == Len(stack[c])
        f == stack[c][n - 1]
    IN
    /\ n >= 2
    /\ Top(c).pc = "Done"
    /\ stack' = [stack EXCEPT ![c] =
                    Append(SubSeq(@, 1, n - 2),
                           [f EXCEPT !.out = @ \o Top(c).result, !.idx = @ + 1])]
    /\ UNCHANGED <<plugins, store>>

MacroExpandReturn(c) ==
    LET f == Top(c) IN
    /\ Active(c)
    /\ f.pc = "MacroExpand"
    /\ f.idx > Len(f.text)
    /\ stack' = SetTop(c, Advance(f, "MacroExpand", StageInput(f), f.out))
    /\ UNCHANGED <<plugins, store>>

BracketLinks(c) ==
    LET f == Top(c) IN
    /\ Active(c)
    /\ f.pc = "BracketLinks"
    /\ stack' = SetTop(c, Advance(f, "BracketLinks", StageInput(f),
                    expand_bracket_links(StageInput(f), f.web, BaseUrl)))
    /\ UNCHANGED <<plugins, store>>

TmlNormalize(c) ==
    LET f == Top(c) IN
    /\ Active(c)
    /\ f.pc = "TmlNormalize"
    /\ stack' = SetTop(c, Advance(f, "TmlNormalize", StageInput(f),
                                  tml_to_markdown(StageInput(f))))
    /\ UNCHANGED <<plugins, store>>

MarkdownToHtml(c) ==
    LET f == Top(c) IN
    /\ Active(c)
    /\ f.pc = "MarkdownToHtml"
    /\ stack' = SetTop(c, Advance(f, "MarkdownToHtml", StageInput(f),
                                  render_markdown(StageInput(f))))
    /\ UNCHANGED <<plugins, store>>

WikiWordLink(c) ==
    LET f == Top(c)
        html == StageInput(f)
        words == SelectSeq(html, LAMBDA t : t.k = "text" /\ t.v \in {"WebHome"})
        g == [f EXCEPT !.checks = @ \o [i \in 1..Len(words) |->
                    [topic |-> words[i].v,
                     exists |-> topic_exists(f.ctx.db, f.web, words[i].v)]]]
    IN
    /\ Active(c)
    /\ f.pc = "WikiWordLink"
    /\ stack' = SetTop(c, Advance(g, "WikiWordLink", html,
                                  process_html(html, BaseUrl, f.web)))
    /\ UNCHANGED <<plugins, store>>

PostRenderHook(c) ==
    /\ Active(c)
    /\ Top(c).pc = "PostRenderHooks"
    /\ UsesManager(Top(c))
    /\ Top(c).idx <= Len(plugins)
    /\ stack' = SetTop(c, HookStep(Top(c), "post_render", CurrentContext(c)))
    /\ UNCHANGED <<plugins, store>>

\* return _add_external_link_targets(html), and render() returns it
PostRenderReturn(c) ==
    LET f == Top(c)
        html == StageInput(f)
        g == [f EXCEPT !.hardened = @ + 1, !.harden_in = html,
                       !.result = add_external_link_targets(html)]
    IN
    /\ Active(c)
    /\ f.pc = "PostRenderHooks"
    /\ ~UsesManager(f) \/ f.idx > Len(plugins)
    /\ stack' = SetTop(c, Advance(g, "PostRenderHooks", f.stage_in, g.result))
    /\ UNCHANGED <<plugins, store>>

\* the top-level render() has returned to its caller
RenderReturn(c) ==
    /\ Len(stack[c]) = 1
    /\ Top(c).pc = "Done"
    /\ stack' = [stack EXCEPT ![c] = <<>>]
    /\ UNCHANGED <<plugins, store>>

(***************************************************************************)
(* The topics API routes (app/routes/topics.py), the topic page of the web *)
(* UI (webui/pages/topics.py), the topic service and the ACL service.  A   *)
(* request runs in one database session, which is committed when the       *)
(* request ends: a route is one action.  One web, Main, holds the topics.   *)
(***************************************************************************)
MaxVersions == 2    \* at most this many versions of a topic are saved

TopicNames == {"Page"}
RouteContents == {StoredContent.Home, StoredContent.Links}

UserTable ==
    [ alice |-> [username |-> "alice", is_admin |-> FALSE, groups |-> {"Dev"}],
      bob   |-> [username |-> "bob", is_admin |-> FALSE, groups |-> {}],
      root  |-> [username |-> "root", is_admin |-> TRUE, groups |-> {"Dev"}] ]

DEFAULT_ALLOW == {"view"}

Ace(principal, permission, allow) ==
    [principal |-> principal, permission |-> permission, allow |-> allow]

\* the principal set check_permission and check_topic_permission build
PrincipalsOf(user) ==
    {"*"} \cup (IF user = None THEN {}
                ELSE {"user:" \o UserTable[user].username}
                     \cup {"group:" \o g : g \in UserTable[user].groups})

\* an evaluation that looks at the ALLOW entries first
eval_allow_first(entries, permission, principals) ==
    LET denies == {e \in entries : e.permission = permission
                        /\ e.principal \in principals /\ ~e.allow}
        allows == {e \in entries : e.permission = permission
                        /\ e.principal \in principals /\ e.allow}
    IN  IF allows # {} THEN "True"
        ELSE IF denies # {} THEN "False"
        ELSE "None"

eval_entries(entries, permission, principals) ==
    LET denies == {e \in entries : e.permission = permission
                        /\ e.principal \in principals /\ ~e.allow}
        allows == {e \in entries : e.permission = permission
                        /\ e.principal \in principals /\ e.allow}
    IN  IF denies # {} THEN "False"
        ELSE IF allows # {} THEN "True"
        ELSE "None"

check_permission(entries, permission, user) ==
    IF entries = {} THEN permission \in DEFAULT_ALLOW
    ELSE IF user # None /\ UserTable[user].is_admin THEN TRUE
    ELSE LET result == eval_entries(entries, permission, PrincipalsOf(user))
         IN  IF result # "None" THEN result = "True"
             ELSE permission \in DEFAULT_ALLOW

\* a check that evaluates the topic's and the web's entries together
check_merged_permission(topic_entries, web_entries, permission, user) ==
    IF user # None /\ UserTable[user].is_admin THEN TRUE
    ELSE LET result == eval_entries(topic_entries \cup web_entries, permission,
                                    PrincipalsOf(user))
         IN  IF result # "None" THEN result = "True"
             ELSE permission \in DEFAULT_ALLOW

check_topic_permission(topic_entries, web_entries, permission, user) ==
    IF user # None /\ UserTable[user].is_admin THEN TRUE
    ELSE IF topic_entries # {}
    THEN LET result == eval_entries(topic_entries, permission, PrincipalsOf(user))
         IN  IF result # "None" THEN result = "True"
             ELSE permission \in DEFAULT_ALLOW
    ELSE IF web_entries # {}
    THEN LET result == eval_entries(web_entries, permission, PrincipalsOf(user))
         IN  IF result # "None" THEN result = "True"
             ELSE permission \in DEFAULT_ALLOW
    ELSE permission \in DEFAULT_ALLOW

TopicAllowed(name, permission, user) ==
    check_topic_permission(acls["topic:" \o name], acls["web"], permission, user)

\* the rendered column of a version row: NULL, or the cached HTML
NoRender == [set |-> FALSE, html |-> <<>>]
Cached(html) == [set |-> TRUE, html |-> html]
\* if ver.rendered: neither None nor ""
Truthy(rendered) == rendered.set /\ rendered.html # <<>>

NoVersion == 0      \* version: Optional[int] = Query(None, ge=1)

Row(version, content, author, comment) ==
    [version |-> version, content |-> content, author |-> author,
     comment |-> comment, rendered |-> NoRender]

\* the comments a request may carry; "" is the schema's default
Comments == {"", "typo"}

\* data.comment or "Initial version"
InitialComment(comment) == IF comment # "" THEN comment ELSE "Initial version"

\* data.comment or f"Version {next_ver}"
VersionComment(comment, next_ver) ==
    IF comment # "" THEN comment ELSE "Version " \o ToString(next_ver)

\* a lookup that takes the oldest row for the latest
FirstRow(rows) == 1

\* _latest_version / max(topic.versions, key=version): the index of the row
Latest(rows) ==
    CHOOSE i \in 1..Len(rows) : \A j \in 1..Len(rows) : rows[j].version <= rows[i].version

\* a version number taken without the + 1
current_version_number(rows) ==
    IF rows = <<>> THEN 0 ELSE rows[Latest(rows)].version

\* _next_version_number: (max(version) or 0) + 1
next_version_number(rows) ==
    IF rows = <<>> THEN 1 ELSE rows[Latest(rows)].version + 1

\* the pipeline of _get_pipeline(db) has the plugin manager, that of the
\* web UI's _pipeline(db) has none
ApiRender(topic, content, user) == RenderAlone("Main", topic, content, user, TRUE)
WebUiRender(topic, content, user) == RenderAlone("Main", topic, content, user, FALSE)

Response(route, user, status) ==
    [ route |-> route, user |-> user, status |-> status, topic |-> "",
      version |-> NoVersion, content |-> <<>>, rendered |-> NoRender,
      from_cache |-> FALSE, view_checked |-> FALSE, render_called |-> FALSE,
      hooks |-> <<>>, body |-> <<>> ]

(***************************************************************************)
(* Lifecycle hooks.  BasePlugin's hooks do nothing; those of the Faulty    *)
(* plugin raise an Exception.  The log lists the hook calls made.          *)
(***************************************************************************)
\* a dispatcher of lifecycle hooks without the try/except
LifecycleNotCaught(r) == FALSE

\* except Exception as exc: logger.error(...)
LifecycleCaught(r) == r.raised

\* PluginManager.after_save / after_create / after_delete / after_upload,
\* from the i-th plugin on
RECURSIVE Dispatch(_, _, _)
Dispatch(hook, i, log) ==
    IF i > Len(plugins) THEN [raised |-> FALSE, log |-> log]
    ELSE LET r == IF PluginAt(i) = "Faulty" THEN Raised ELSE Returned(None)
             entry == [hook |-> hook, plugin |-> PluginAt(i), raised |-> r.raised]
         IN  IF r.raised /\ ~LifecycleCaught(r)
             THEN [raised |-> TRUE, log |-> Append(log, entry)]
             ELSE Dispatch(hook, i + 1, Append(log, entry))

\* the dispatches a service makes one after another
RECURSIVE DispatchAll(_, _)
DispatchAll(hooks, log) ==
    IF hooks = <<>> THEN [raised |-> FALSE, log |-> log]
    ELSE LET d == Dispatch(Head(hooks), 1, log)
         IN  IF d.raised THEN d ELSE DispatchAll(Tail(hooks), d.log)

\* PUT .../acl (set_acl replaces the entries of a resource)
SetAcl(resource, entries) ==
    /\ acls' = [acls EXCEPT ![resource] = entries]
    /\ resp' = Response("set_acl", None, 200)
    /\ UNCHANGED <<plugins, stack, reset, sessions, topics, boot, fncall>>

\* POST /webs/Main/topics
CreateTopic(user, name, content, comment) ==
    /\ IF ~check_permission(acls["web"], "create", user)
       THEN /\ resp' = Response("create_topic", user, 403)
            /\ UNCHANGED topics
       ELSE IF topics[name] # <<>>
       THEN /\ resp' = Response("create_topic", user, 409)
            /\ UNCHANGED topics
       ELSE LET d == DispatchAll(<<"after_create", "after_save">>, <<>>) IN
            IF d.raised
            THEN /\ resp' = [Response("create_topic", user, 500) EXCEPT !.hooks = d.log]
                 /\ UNCHANGED topics
            ELSE /\ topics' = [topics EXCEPT ![name] =
                        <<Row(1, content, user, InitialComment(comment))>>]
                 /\ resp' = [Response("create_topic", user, 201) EXCEPT
                            !.topic = name, !.version = 1, !.content = content,
                            !.rendered = Cached(ApiRender(name, content, user)),
                            !.render_called = TRUE, !.hooks = d.log]
    /\ get_pipeline(resp'.render_called)
    /\ UNCHANGED <<plugins, stack, reset, sessions, acls, fncall>>

\* GET /webs/Main/topics/{name}?version=&render=
GetTopic(user, name, version, render) ==
    LET rows == topics[name]
        found == IF version # NoVersion
                 THEN {i \in 1..Len(rows) : rows[i].version = version}
                 ELSE IF rows # <<>> THEN {Latest(rows)} ELSE {}
        i == CHOOSE i \in found : TRUE
        ver == rows[i]
        cached == Truthy(ver.rendered) /\ version = NoVersion
        rendered == IF cached THEN ver.rendered
                    ELSE Cached(ApiRender(name, ver.content, user))
    IN
    /\ IF found = {}
       THEN /\ resp' = Response("get_topic", user, 404)
            /\ UNCHANGED topics
       ELSE IF ~TopicAllowed(name, "view", user)
       THEN /\ resp' = Response("get_topic", user, 403)
            /\ UNCHANGED topics
       ELSE IF ~render
       THEN /\ resp' = [Response("get_topic", user, 200) EXCEPT
                            !.topic = name, !.version = ver.version,
                            !.content = ver.content, !.view_checked = TRUE]
            /\ UNCHANGED topics
       ELSE /\ resp' = [Response("get_topic", user, 200) EXCEPT
                            !.topic = name, !.version = ver.version,
                            !.content = ver.content, !.rendered = rendered,
                            !.from_cache = cached, !.view_checked = TRUE,
                            !.render_called = ~cached]
            /\ topics' = IF ~cached /\ version = NoVersion
                         THEN [topics EXCEPT ![name][i].rendered = rendered]
                         ELSE topics
    /\ get_pipeline(resp'.render_called)
    /\ UNCHANGED <<plugins, stack, reset, sessions, acls, fncall>>

\* GET /webs/Main/topics/{name}/raw?version=
GetTopicRaw(user, name, version) ==
    LET rows == topics[name]
        found == IF version # NoVersion
                 THEN {i \in 1..Len(rows) : rows[i].version = version}
                 ELSE IF rows # <<>> THEN {Latest(rows)} ELSE {}
        ver == rows[CHOOSE i \in found : TRUE]
    IN
    /\ resp' = IF found = {} THEN Response("get_topic_raw", user, 404)
               ELSE IF ~TopicAllowed(name, "view", user)
               THEN Response("get_topic_raw", user, 403)
               ELSE [Response("get_topic_raw", user, 200) EXCEPT
                        !.topic = name, !.version = ver.version,
                        !.content = ver.content, !.view_checked = TRUE]
    /\ get_pipeline(FALSE)
    /\ UNCHANGED <<plugins, stack, reset, sessions, topics, acls, fncall>>

\* _ver_response(ver)
ver_response(ver) ==
    [version |-> ver.version, content |-> ver.content, author_id |-> ver.author,
     comment |-> ver.comment]

\* GET /webs/Main/topics/{name}/history: the versions, newest first; the
\* route takes no user and makes no check, caller is who sent the request
GetHistory(caller, name) ==
    LET rows == topics[name] IN
    /\ resp' = IF rows = <<>> THEN Response("get_history", caller, 404)
               ELSE [Response("get_history", caller, 200) EXCEPT
                        !.topic = name,
                        !.body = [i \in 1..Len(rows) |->
                                    ver_response(rows[Len(rows) + 1 - i])]]
    /\ get_pipeline(FALSE)
    /\ UNCHANGED <<plugins, stack, reset, sessions, topics, acls, fncall>>

\* topics.get_diff on contents of one line each: the opcodes of
\* difflib.SequenceMatcher are 'equal' or 'replace'
get_diff(a_ver, b_ver) ==
    IF a_ver.content = b_ver.content
    THEN << [type |-> "equal", lines |-> <<a_ver.content>>] >>
    ELSE << [type |-> "delete", lines |-> <<a_ver.content>>],
            [type |-> "insert", lines |-> <<b_ver.content>>] >>

\* GET /webs/Main/topics/{name}/diff/{from_ver}/{to_ver}: no user, no check
GetDiff(caller, name, from_ver, to_ver) ==
    LET rows == topics[name]
        a == {i \in 1..Len(rows) : rows[i].version = from_ver}
        b == {i \in 1..Len(rows) : rows[i].version = to_ver}
    IN
    /\ resp' = IF rows = <<>> \/ a = {} \/ b = {}
               THEN Response("get_diff", caller, 404)
               ELSE [Response("get_diff", caller, 200) EXCEPT
                        !.topic = name,
                        !.body = get_diff(rows[CHOOSE i \in a : TRUE],
                                          rows[CHOOSE i \in b : TRUE])]
    /\ get_pipeline(FALSE)
    /\ UNCHANGED <<plugins, stack, reset, sessions, topics, acls, fncall>>

\* PUT /webs/Main/topics/{name}
UpdateTopic(user, name, content, comment) ==
    LET rows == topics[name]
        next_ver == next_version_number(rows)
        prev == Latest(rows)
        rendered == Cached(ApiRender(name, content, user))
    IN
    /\ IF rows = <<>>
       THEN /\ resp' = Response("update_topic", user, 404)
            /\ UNCHANGED topics
       ELSE IF ~TopicAllowed(name, "edit", user)
       THEN /\ resp' = Response("update_topic", user, 403)
            /\ UNCHANGED topics
       ELSE LET d == DispatchAll(<<"after_save">>, <<>>) IN
            /\ Len(rows) < MaxVersions
            /\ IF d.raised
               THEN /\ resp' = [Response("update_topic", user, 500) EXCEPT
                                    !.hooks = d.log]
                    /\ UNCHANGED topics
               ELSE /\ topics' = [topics EXCEPT ![name] =
                        Append([rows EXCEPT ![prev].rendered = NoRender],
                               [Row(next_ver, content, user,
                                    VersionComment(comment, next_ver)) EXCEPT
                                    !.rendered = rendered])]
                    /\ resp' = [Response("update_topic", user, 200) EXCEPT
                            !.topic = name, !.version = next_ver, !.content = content,
                            !.rendered = rendered, !.render_called = TRUE,
                            !.hooks = d.log]
    /\ get_pipeline(resp'.render_called)
    /\ UNCHANGED <<plugins, stack, reset, sessions, acls, fncall>>

\* DELETE /webs/Main/topics/{name}; a topic created later under the same name
\* has a new id, so none of the deleted topic's ACL entries apply to it
DeleteTopic(user, name) ==
    LET rows == topics[name]
        d == DispatchAll(<<"after_delete">>, <<>>)
    IN
    /\ IF rows = <<>>
       THEN /\ resp' = Response("delete_topic", user, 404)
            /\ UNCHANGED <<topics, acls>>
       ELSE IF ~TopicAllowed(name, "delete", user)
       THEN /\ resp' = Response("delete_topic", user, 403)
            /\ UNCHANGED <<topics, acls>>
       ELSE IF d.raised
       THEN /\ resp' = [Response("delete_topic", user, 500) EXCEPT !.hooks = d.log]
            /\ UNCHANGED <<topics, acls>>
       ELSE /\ topics' = [topics EXCEPT ![name] = <<>>]
            /\ acls' = [acls EXCEPT !["topic:" \o name] = {}]
            /\ resp' = [Response("delete_topic", user, 200) EXCEPT
                            !.topic = name, !.hooks = d.log]
    /\ UNCHANGED <<plugins, stack, reset, sessions, boot, fncall>>

\* pm.after_upload(web, topic, attachment), as the attachment service calls it
AfterUpload(name) ==
    LET d == DispatchAll(<<"after_upload">>, <<>>) IN
    /\ resp' = [Response("after_upload", None, IF d.raised THEN 500 ELSE 200) EXCEPT
                    !.topic = name, !.hooks = d.log]
    /\ UNCHANGED <<plugins, stack, reset, sessions, topics, acls, boot, fncall>>

\* GET /webs/Main/topics/{name} of the web UI, by a logged-in user
ViewTopic(user, name) ==
    LET rows == topics[name]
        ver == rows[Latest(rows)]
        cached == Truthy(ver.rendered)
    IN
    /\ IF rows = <<>>
       THEN resp' = Response("view_topic", user, 404)
       ELSE IF ~TopicAllowed(name, "view", user)
       THEN resp' = Response("view_topic", user, 403)
       ELSE resp' = [Response("view_topic", user, 200) EXCEPT
                        !.topic = name, !.version = ver.version,
                        !.content = ver.content,
                        !.rendered = IF cached THEN ver.rendered
                                     ELSE Cached(WebUiRender(name, ver.content, user)),
                        !.from_cache = cached, !.view_checked = TRUE,
                        !.render_called = ~cached]
    /\ get_pipeline(resp'.render_called)
    /\ UNCHANGED <<plugins, stack, reset, sessions, topics, acls, fncall>>

Calls == {1, 2}

\* the accounts of the password reset flow; bob's has been deactivated
Accounts ==
    [ alice |-> [email |-> "a@x", is_active |-> TRUE],
      bob   |-> [email |-> "b@x", is_active |-> FALSE],
      carol |-> [email |-> "c@x", is_active |-> TRUE] ]

\* hash_password(new_password)
hash_password(password) == "hash:" \o password

\* no reset token issued yet; used lists the tokens a password was set with
NoResets ==
    [ tokens |-> {},
      hashes |-> [u \in DOMAIN Accounts |-> hash_password("old")],
      active |-> [u \in DOMAIN Accounts |-> Accounts[u].is_active],
      now |-> 0, issued |-> 0, used |-> {} ]

\* a session with no update_topic call in it
IdleSession == [pc |-> "idle"]

EmptyStore ==
    /\ reset = NoResets
    /\ sessions = [c \in Calls |-> IdleSession]
    /\ topics = [n \in TopicNames |-> <<>>]
    /\ acls = [r \in ({"web"} \cup {"topic:" \o n : n \in TopicNames}) |-> {}]
    /\ resp = Response("none", None, 0)

NoCall == [fn |-> "none"]

\* the process before the first RenderPipeline is constructed
NotBooted ==
    /\ builtins_registered = FALSE
    /\ macro_registry = <<>>
    /\ pipelines = <<>>
    /\ fncall = NoCall

Init ==
    /\ plugins = <<>>
    /\ stack = [c \in Calls |-> <<>>]
    /\ EmptyStore
    /\ NotBooted

Step(c) ==
    \/ PreRenderHook(c)
    \/ PreRenderReturn(c)
    \/ ExpandToken(c)
    \/ IncludeCall(c)
    \/ IncludeReturn(c)
    \/ MacroExpandReturn(c)
    \/ BracketLinks(c)
    \/ TmlNormalize(c)
    \/ MarkdownToHtml(c)
    \/ WikiWordLink(c)
    \/ PostRenderHook(c)
    \/ PostRenderReturn(c)
    \/ RenderReturn(c)

\* one render call at a time, on any stored topic, for any viewer
Next ==
    \/ \E p \in {"Signature", "Faulty", "Promo"} : Register(p)
    \/ \E pm \in BOOLEAN : Construct(pm)
    \/ \E web \in Webs, topic \in Topics, user \in Users \cup {None},
          pm \in {pipelines[i].pm : i \in 1..Len(pipelines)} :
            RenderCall(1, web, topic, user, pm)
    \/ Step(1)

Spec == Init /\ [][Next]_vars

(***************************************************************************)
(* Two render calls in flight at once, as two requests served by one       *)
(* process: every step of either call may come between two steps of the    *)
(* other.  The plugin list was populated at startup.                       *)
(***************************************************************************)

\* one pipeline with the plugin manager has been constructed
InitConc ==
    /\ plugins \in {<<"Signature">>, <<"Faulty", "Signature">>}
    /\ stack = [c \in Calls |-> <<>>]
    /\ EmptyStore
    /\ builtins_registered = TRUE
    /\ macro_registry = <<BuiltinMacros>>
    /\ pipelines = <<[pm |-> TRUE]>>
    /\ fncall = NoCall

NextConc ==
    \/ \E c \in Calls, web \in Webs, topic \in {"Home", "Host"}, user \in Users :
            RenderCall(c, web, topic, user, TRUE)
    \/ \E c \in Calls : Step(c)

SpecConc == InitConc /\ [][NextConc]_vars

(***************************************************************************)
(* The requests of the topics routes, one after another, by the users      *)
(* alice and bob and by anonymous readers.                                 *)
(***************************************************************************)

InitRoutes ==
    /\ plugins \in {<<>>, <<"Promo">>, <<"Faulty", "Signature">>}
    /\ stack = [c \in Calls |-> <<>>]
    /\ EmptyStore
    /\ NotBooted

NextRoutes ==
    \/ \E entries \in { {}, {Ace("*", "create", TRUE), Ace("group:Dev", "edit", TRUE),
                              Ace("group:Dev", "delete", TRUE)} } :
          SetAcl("web", entries)
    \/ \E n \in TopicNames,
          entries \in { {}, {Ace("user:bob", "view", FALSE), Ace("user:bob", "edit", TRUE)} } :
            topics[n] # <<>> /\ SetAcl("topic:" \o n, entries)
    \/ \E u \in Users, n \in TopicNames, content \in RouteContents,
          comment \in Comments :
            CreateTopic(u, n, content, comment)
    \/ \E u \in Users \cup {None}, n \in TopicNames,
          version \in {NoVersion} \cup 1..MaxVersions, render \in BOOLEAN :
            GetTopic(u, n, version, render)
    \/ \E u \in Users, n \in TopicNames, content \in RouteContents,
          comment \in Comments :
            UpdateTopic(u, n, content, comment)
    \/ \E u \in Users, n \in TopicNames : ViewTopic(u, n)
    \/ \E u \in Users, n \in TopicNames : DeleteTopic(u, n)
    \/ \E n \in TopicNames : AfterUpload(n)
    \/ \E u \in Users \cup {None}, n \in TopicNames,
          version \in {NoVersion} \cup 1..MaxVersions :
            GetTopicRaw(u, n, version)
    \/ \E u \in {"bob", None}, n \in TopicNames : GetHistory(u, n)
    \/ \E u \in {"bob", None}, n \in TopicNames, from_ver \in 1..MaxVersions,
          to_ver \in 1..MaxVersions :
            GetDiff(u, n, from_ver, to_ver)

SpecRoutes == InitRoutes /\ [][NextRoutes]_vars

(***************************************************************************)
(* The helper functions of the renderer called on their own, on texts      *)
(* given as sequences of lexemes: a lexeme is one character of the markup  *)
(* ("%", "{", "}", ...) or a run of other characters (a macro name,        *)
(* a word).                                                                *)
(***************************************************************************)
MaxLen == 5         \* the texts have at most this many lexemes

RECURSIVE SeqsUpTo(_, _)
SeqsUpTo(S, n) ==
    IF n = 0 THEN {<<>>}
    ELSE LET shorter == SeqsUpTo(S, n - 1)
         IN  shorter \cup {Append(s, x) : s \in {q \in shorter : Len(q) = n - 1}, x \in S}

\* a pattern without the alternative for a macro with parameters
SearchBareMacro(s) ==
    \E i \in 1..Len(s) :
        /\ i + 2 <= Len(s)
        /\ s[i] = "%"
        /\ s[i + 1] \in USER_SPECIFIC_MACROS
        /\ s[i + 2] = "%"

\* _USER_SPECIFIC_MACROS.search(content): "%", one of the names, then "{" or "%"
user_specific_search(s) ==
    \E i \in 1..Len(s) :
        /\ i + 2 <= Len(s)
        /\ s[i] = "%"
        /\ s[i + 1] \in USER_SPECIFIC_MACROS
        /\ s[i + 2] \in {"{", "%"}

(***************************************************************************)
(* _tml_to_markdown on a text of characters.  Each rule is re.sub with a   *)
(* lazy group: the matches are found from left to right, a match ends at   *)
(* the first position where the rest of the pattern fits, and the search   *)
(* goes on after the match.  Lookbehinds read the text being searched.     *)
(* No text of the model has a line of "---+", so the heading rule finds    *)
(* nothing to replace.                                                     *)
(***************************************************************************)

Whitespace == {" "}

\* the ends j of a match of __(.+?)__ that starts at i
BoldItalicEnds(s, i) ==
    IF i + 1 <= Len(s) /\ s[i] = "_" /\ s[i + 1] = "_"
    THEN {j \in (i + 3)..(Len(s) - 1) : s[j] = "_" /\ s[j + 1] = "_"}
    ELSE {}

\* the ends j of a match of (?<!d)d(?!\s)(.+?)(?<!\s)d(?!d) that starts at i
InlineEnds(s, i, d) ==
    IF /\ s[i] = d
       /\ (i = 1 \/ s[i - 1] # d)
       /\ i + 1 <= Len(s)
       /\ s[i + 1] \notin Whitespace
    THEN {j \in (i + 2)..Len(s) :
            /\ s[j] = d
            /\ s[j - 1] \notin Whitespace
            /\ (j = Len(s) \/ s[j + 1] # d)}
    ELSE {}

Min(S) == CHOOSE x \in S : \A y \in S : x <= y

\* _TML_BOLD_ITALIC_RE.sub(r'***\1***', text), from position i on
RECURSIVE SubBoldItalic(_, _)
SubBoldItalic(s, i) ==
    IF i > Len(s) THEN <<>>
    ELSE LET ends == BoldItalicEnds(s, i) IN
         IF ends = {} THEN <<s[i]>> \o SubBoldItalic(s, i + 1)
         ELSE LET j == Min(ends)
              IN  <<"*", "*", "*">> \o SubSeq(s, i + 2, j - 1) \o <<"*", "*", "*">>
                  \o SubBoldItalic(s, j + 2)

\* _TML_BOLD_RE.sub(r'**\1**', text) with d = "*", mark = "**";
\* _TML_ITALIC_RE.sub(r'*\1*', text) with d = "_", mark = "*"
RECURSIVE SubInline(_, _, _, _)
SubInline(s, i, d, mark) ==
    IF i > Len(s) THEN <<>>
    ELSE LET ends == InlineEnds(s, i, d) IN
         IF ends = {} THEN <<s[i]>> \o SubInline(s, i + 1, d, mark)
         ELSE LET j == Min(ends)
              IN  mark \o SubSeq(s, i + 1, j - 1) \o mark
                  \o SubInline(s, j + 1, d, mark)

\* text = _TML_BOLD_RE.sub(r'**\1**', text)
\* text = _TML_ITALIC_RE.sub(r'*\1*', text)
tml_to_markdown_text(text) ==
    SubInline(SubInline(SubBoldItalic(text, 1), 1, "*", <<"*", "*">>), 1, "_", <<"*">>)

TmlToMarkdown(text) ==
    /\ fncall' = [fn |-> "_tml_to_markdown", text |-> text,
                  result |-> tml_to_markdown_text(text)]
    /\ UNCHANGED <<plugins, stack, reset, sessions, topics, acls, resp, boot>>

(***************************************************************************)
(* The two existence checks and %IF%.  The data-access handle is absent    *)
(* (None), answers ("db"), or raises an Exception at execute ("raises").   *)
(* A condition is a sequence of lexemes; "istopic ", "defined " and        *)
(* "context " are the prefixes _evaluate_condition tests for.              *)
(***************************************************************************)
MaxCond == 3        \* a condition has at most this many lexemes

DbStates == {None, "db", "raises"}

\* await db.execute(SELECT 1 FROM topics ...); result.first() is not None
Query(db, web, topic) ==
    IF db = "raises" THEN Raised ELSE Returned(topic \in Topics)

\* a linker check without the try/except
linker_check_uncaught(db, web, topic) ==
    IF db = None THEN Returned(TRUE) ELSE Query(db, web, topic)

\* RenderPipeline._topic_exists: what the call returns, or that it raises
linker_check(db, web, topic) ==
    IF db = None THEN Returned(TRUE)
    ELSE LET r == Query(db, web, topic)
         IN  IF r.raised THEN Returned(TRUE) ELSE r

\* macro_color._topic_exists(ctx, target)
macro_topic_exists(ctx, target) ==
    IF ctx.db = None THEN Returned(FALSE)
    ELSE LET dot == FirstDot(target)
             web == IF dot > 0 THEN Join(SubSeq(target, 1, dot - 1)) ELSE ctx.web
             topic == IF dot > 0 THEN Join(SubSeq(target, dot + 1, Len(target)))
                      ELSE Join(target)
             r == Query(ctx.db, web, topic)
         IN  IF r.raised THEN Returned(FALSE) ELSE r

\* str.strip('"\''): without the quotes at both ends
RECURSIVE strip_quotes(_)
strip_quotes(s) ==
    IF s = <<>> THEN s
    ELSE IF Head(s) = "'" THEN strip_quotes(Tail(s))
    ELSE IF s[Len(s)] = "'" THEN strip_quotes(SubSeq(s, 1, Len(s) - 1))
    ELSE s

\* macro_color._evaluate_condition(condition, ctx)
evaluate_condition(condition, ctx) ==
    LET cond == strip(condition) IN
    IF condition = <<>> THEN Returned(FALSE)
    ELSE IF cond # <<>> /\ Head(cond) = "istopic "
    THEN macro_topic_exists(ctx, strip_quotes(strip(Tail(cond))))
    ELSE IF cond # <<>> /\ Head(cond) = "defined "
    THEN Returned(FALSE)
    ELSE IF cond # <<>> /\ Head(cond) = "context "
    THEN Returned(Join(strip(Tail(cond))) = "authenticated" /\ ctx.current_user # None)
    ELSE Returned(strip_quotes(cond) # <<>>)

\* if_macro(params, ctx): %IF{"condition" then="..." else="..."}%
if_macro(condition, then_val, else_val, ctx) ==
    LET r == evaluate_condition(condition, ctx)
    IN  IF r.raised THEN Raised
        ELSE Returned(IF r.value THEN then_val ELSE else_val)

\* the context of a handler in a pipeline whose handle is db
ContextWith(db, web, user) ==
    [make_context(web, "Home", None, user, <<>>) EXCEPT !.db = db]

\* await self._topic_exists(web, topic), as the WikiWord linker calls it
TopicExists(db, web, topic) ==
    /\ fncall' = [fn |-> "_topic_exists", db |-> db, web |-> web, topic |-> topic,
                  outcome |-> linker_check(db, web, topic)]
    /\ UNCHANGED <<plugins, stack, reset, sessions, topics, acls, resp, boot>>

\* the expander calls the handler of %IF{...}%
IfMacro(condition, db, user) ==
    /\ fncall' = [fn |-> "if_macro", db |-> db, condition |-> condition,
                  user |-> user,
                  outcome |-> if_macro(condition, "yes", "no",
                                       ContextWith(db, "Main", user))]
    /\ UNCHANGED <<plugins, stack, reset, sessions, topics, acls, resp, boot>>

(***************************************************************************)
(* %USERINFO%.  The users table holds alice and bob; carol is nobody.      *)
(***************************************************************************)
UsersTable ==
    [ alice |-> [username |-> "alice", display_name |-> "Alice A", email |-> "a@x"],
      bob   |-> [username |-> "bob", display_name |-> "", email |-> "b@x"] ]

\* None where a user dict is expected
NoUser == [none |-> TRUE]

\* _fetch_user(db, username): the row as a dict, None when there is none or
\* when the query raises
fetch_user(db, username) ==
    IF db = "raises" THEN NoUser
    ELSE IF username \in DOMAIN UsersTable THEN UsersTable[username]
    ELSE NoUser

\* _format_user(fmt, user) for a format of one token
format_user(fmt, user) ==
    CASE fmt = "$username" -> user.username
      [] fmt = "$emails" -> user.email
      [] fmt = "$displayname" ->
            IF user.display_name # "" THEN user.display_name ELSE user.username
      [] OTHER -> fmt

\* userinfo_macro(params, ctx) with params "username" (or "") and format=fmt
userinfo_macro(target_username, fmt, ctx) ==
    LET user == IF target_username # "" /\ ctx.db # None
                THEN fetch_user(ctx.db, target_username)
                ELSE IF ctx.current_user = None THEN NoUser
                     ELSE UsersTable[ctx.current_user]
    IN  IF user = NoUser THEN "(unknown user)" ELSE format_user(fmt, user)

UserInfo(target_username, fmt, db, user) ==
    /\ fncall' = [fn |-> "userinfo_macro", db |-> db, target |-> target_username,
                  fmt |-> fmt, user |-> user,
                  result |-> userinfo_macro(target_username, fmt,
                                            ContextWith(db, "Main", user))]
    /\ UNCHANGED <<plugins, stack, reset, sessions, topics, acls, resp, boot>>

\* pipeline._expand_bracket_links(text, default_web, ctx) on a text with one link
ExpandBracketLinks(text, default_web) ==
    /\ fncall' = [fn |-> "_expand_bracket_links", text |-> text,
                  default_web |-> default_web,
                  result |-> expand_bracket_links(text, default_web, BaseUrl)]
    /\ UNCHANGED <<plugins, stack, reset, sessions, topics, acls, resp, boot>>

\* _has_user_macros(content) on a text of lexemes
(***************************************************************************)
(* ACL checks on given entry lists.  Table acl has at most one entry per   *)
(* resource, principal and permission (uq_acl_entry).                      *)
(***************************************************************************)
MaxEntries == 2

AclPermissions == {"view", "edit"}

AclLists(n) ==
    {es \in SUBSET {Ace(p, perm, allow) :
                       p \in {"*", "user:alice", "group:Dev", "group:Ops"},
                       perm \in AclPermissions, allow \in BOOLEAN} :
        /\ Cardinality(es) <= n
        /\ \A e1, e2 \in es :
                (e1.principal = e2.principal /\ e1.permission = e2.permission)
                    => e1 = e2}

CheckPermission(entries, permission, user) ==
    /\ fncall' = [fn |-> "check_permission", entries |-> entries,
                  permission |-> permission, user |-> user,
                  result |-> check_permission(entries, permission, user)]
    /\ UNCHANGED <<plugins, stack, reset, sessions, topics, acls, resp, boot>>

CheckTopicPermission(topic_entries, web_entries, permission, user) ==
    /\ fncall' = [fn |-> "check_topic_permission", topic_entries |-> topic_entries,
                  web_entries |-> web_entries,
                  permission |-> permission, user |-> user,
                  result |-> check_topic_permission(topic_entries, web_entries,
                                                    permission, user)]
    /\ UNCHANGED <<plugins, stack, reset, sessions, topics, acls, resp, boot>>

HasUserMacros(content) ==
    /\ fncall' = [fn |-> "_has_user_macros", content |-> content,
                result |-> user_specific_search(content)]
    /\ UNCHANGED <<plugins, stack, reset, sessions, topics, acls, resp, boot>>

\* the caller has taken the result; the functions keep no state between calls
HelperReturn ==
    /\ fncall # NoCall
    /\ fncall' = NoCall
    /\ UNCHANGED <<plugins, stack, reset, sessions, topics, acls, resp, boot>>

InitHelpers ==
    /\ plugins = <<>>
    /\ stack = [c \in Calls |-> <<>>]
    /\ EmptyStore
    /\ NotBooted

NextHelpers ==
    \/ /\ fncall = NoCall
       /\ \/ \E content \in SeqsUpTo({"%", "{", "}", "USERNAME", "ISMEMBER", "TOPIC",
                                      "x"}, MaxLen) :
                HasUserMacros(content)
          \/ \E text \in SeqsUpTo({"*", "_", "a", " "}, MaxLen) : TmlToMarkdown(text)
          \/ \E db \in DbStates, web \in Webs, topic \in Topics \cup {"Gone"} :
                TopicExists(db, web, topic)
          \/ \E target \in DOMAIN UsersTable \cup {"carol", ""},
                fmt \in {"$displayname", "$username", "$emails"}, db \in DbStates,
                user \in Users \cup {None} :
                UserInfo(target, fmt, db, user)
          \/ \E condition \in SeqsUpTo({"istopic ", "context ", "defined ",
                                        "authenticated", "Main", ".", "Home", "Gone",
                                        "'"}, MaxCond),
                db \in DbStates,
                user \in {None, "alice"} :
                IfMacro(condition, db, user)
          \/ \E target \in (SeqsUpTo({"https://", "Main", "Foo", ".", " "}, MaxLen) \ {<<>>}),
                label \in {<<>>, <<"Label">>, <<" ">>, <<" ", "Label", " ">>},
                web \in Webs :
                ExpandBracketLinks(<<Text("see"), Bracket(target, label)>>, web)
          \/ \E entries \in AclLists(MaxEntries),
                permission \in AclPermissions \cup {"delete"},
                user \in DOMAIN UserTable \cup {None} :
                CheckPermission(entries, permission, user)
          \/ \E topic_entries \in AclLists(MaxEntries), web_entries \in AclLists(1),
                permission \in AclPermissions \cup {"delete"},
                user \in DOMAIN UserTable \cup {None} :
                CheckTopicPermission(topic_entries, web_entries, permission, user)
    \/ HelperReturn

SpecHelpers == InitHelpers /\ [][NextHelpers]_vars

(***************************************************************************)
(* The password reset flow (app/services/password_reset.py and the web UI  *)
(* pages that call it).  Time is counted in hours.  A raw token is the     *)
(* number of the secrets.token_urlsafe(48) draw that produced it, so every *)
(* draw gives a token not seen before.  Each call is one step.             *)
(***************************************************************************)
TOKEN_EXPIRE_HOURS == 1

MaxClock == 3
MaxTokens == 3

\* a lookup by email that leaves out the is_active condition
UserByEmail(email) ==
    LET found == {u \in DOMAIN Accounts : Accounts[u].email = email}
    IN  IF found = {} THEN None ELSE CHOOSE u \in found : TRUE

\* select(User).where(User.email == email, User.is_active == True)
ActiveUserByEmail(email) ==
    LET found == {u \in DOMAIN Accounts :
                    Accounts[u].email = email /\ reset.active[u]}
    IN  IF found = {} THEN None ELSE CHOOSE u \in found : TRUE

\* a token that never counts as expired
NeverExpired(now, expires_at) == FALSE

\* datetime.now(tz=timezone.utc) > token_obj.expires_at
Expired(now, expires_at) == now > expires_at

\* a use that leaves the user's tokens in the table
KeepTokens(tokens, user) == tokens

\* delete(PasswordResetToken).where(PasswordResetToken.user_id == user.id)
DeleteTokensOf(tokens, user) == {tk \in tokens : tk.user_id # user}

\* create_reset_token(db, email): the state left and the value returned
create_reset_token(email) ==
    LET user == ActiveUserByEmail(email)
        raw_token == reset.issued + 1
        token_obj == [token |-> raw_token, user_id |-> user,
                      expires_at |-> reset.now + TOKEN_EXPIRE_HOURS]
    IN  IF user = None
        THEN [state |-> reset, user |-> None, raw_token |-> 0]
        ELSE [state |-> [reset EXCEPT
                            !.tokens = DeleteTokensOf(reset.tokens, user)
                                            \cup {token_obj},
                            !.issued = raw_token],
              user |-> user, raw_token |-> raw_token]

\* validate_reset_token(db, raw_token): status 400 is the HTTPException
validate_reset_token(raw_token) ==
    LET rows == {tk \in reset.tokens : tk.token = raw_token}
        token_obj == CHOOSE tk \in rows : TRUE
    IN  IF rows = {}
        THEN [state |-> reset, status |-> 400, user |-> None,
              detail |-> "Invalid or expired reset link."]
        ELSE IF Expired(reset.now, token_obj.expires_at)
        THEN [state |-> [reset EXCEPT !.tokens = reset.tokens \ {token_obj}],
              status |-> 400, user |-> None,
              detail |-> "This reset link has expired. Please request a new one."]
        ELSE IF ~reset.active[token_obj.user_id]
        THEN [state |-> reset, status |-> 400, user |-> None,
              detail |-> "Invalid or expired reset link."]
        ELSE [state |-> reset, status |-> 200, user |-> token_obj.user_id,
              detail |-> ""]

\* apply_reset_token(db, raw_token, new_password)
apply_reset_token(raw_token, new_password) ==
    LET v == validate_reset_token(raw_token)
    IN  IF v.status # 200 THEN v
        ELSE [state |-> [reset EXCEPT
                            !.hashes[v.user] = hash_password(new_password),
                            !.tokens = DeleteTokensOf(reset.tokens, v.user),
                            !.used = reset.used \cup {raw_token}],
              status |-> 200, user |-> v.user, detail |-> ""]

CreateResetToken(email) ==
    LET r == create_reset_token(email) IN
    /\ reset.issued < MaxTokens
    /\ reset' = r.state
    /\ fncall' = [fn |-> "create_reset_token", email |-> email, raised |-> FALSE,
                  user |-> r.user, raw_token |-> r.raw_token]
    /\ UNCHANGED <<plugins, stack, sessions, topics, acls, resp, boot>>

ValidateResetToken(raw_token) ==
    LET r == validate_reset_token(raw_token) IN
    /\ reset' = r.state
    /\ fncall' = [fn |-> "validate_reset_token", token |-> raw_token,
                  status |-> r.status, user |-> r.user, detail |-> r.detail]
    /\ UNCHANGED <<plugins, stack, sessions, topics, acls, resp, boot>>

ApplyResetToken(raw_token, new_password) ==
    LET r == apply_reset_token(raw_token, new_password) IN
    /\ reset' = r.state
    /\ fncall' = [fn |-> "apply_reset_token", token |-> raw_token,
                  status |-> r.status, user |-> r.user, detail |-> r.detail]
    /\ UNCHANGED <<plugins, stack, sessions, topics, acls, resp, boot>>

\* POST /forgot-password: the template response.  send_password_reset_email
\* never raises and returns whether the mail went out (delivered).
forgot_password_submit(email, delivered) ==
    LET result == create_reset_token(email)
        sent == IF result.user # None THEN delivered ELSE FALSE
    IN  [state |-> result.state, mailed |-> sent,
         response |-> [template |-> "auth/forgot_password.html", status |-> 200,
                       submitted |-> TRUE, error |-> ""]]

ForgotPasswordSubmit(email, delivered) ==
    LET r == forgot_password_submit(email, delivered) IN
    /\ reset.issued < MaxTokens
    /\ reset' = r.state
    /\ fncall' = [fn |-> "forgot_password_submit", email |-> email,
                  mailed |-> r.mailed, response |-> r.response]
    /\ UNCHANGED <<plugins, stack, sessions, topics, acls, resp, boot>>

\* users.set_active(db, username, is_active)
SetActive(user, is_active) ==
    /\ reset.active[user] # is_active
    /\ reset' = [reset EXCEPT !.active[user] = is_active]
    /\ fncall' = [fn |-> "set_active", user |-> user]
    /\ UNCHANGED <<plugins, stack, sessions, topics, acls, resp, boot>>

\* an hour passes
Tick ==
    /\ reset.now < MaxClock
    /\ reset' = [reset EXCEPT !.now = reset.now + 1]
    /\ UNCHANGED <<plugins, stack, sessions, topics, acls, resp, boot, fncall>>

NextReset ==
    \/ /\ fncall = NoCall
       /\ \/ \E email \in {"a@x", "b@x", "zz@x"} : CreateResetToken(email)
          \/ \E raw_token \in 1..MaxTokens : ValidateResetToken(raw_token)
          \/ \E raw_token \in 1..MaxTokens, new_password \in {"pw1", "pw2"} :
                ApplyResetToken(raw_token, new_password)
          \/ \E email \in {"a@x", "b@x", "zz@x"}, delivered \in BOOLEAN :
                ForgotPasswordSubmit(email, delivered)
          \/ \E user \in {"alice", "bob"}, is_active \in BOOLEAN :
                SetActive(user, is_active)
          \/ Tick
    \/ HelperReturn

SpecReset == InitHelpers /\ [][NextReset]_vars

(***************************************************************************)
(* Two update_topic calls (app/services/topics.py), each in a database     *)
(* session of its own, on a topic that has its first version.  A call      *)
(* reads the next version number, inserts its row at the flush and is      *)
(* committed when its request ends.  A session sees the rows committed by  *)
(* others; uq_topic_versions_topic_ver is enforced at the insert, which    *)
(* waits while another session holds an uncommitted row of that number.    *)
(***************************************************************************)
\* next_ver = await _next_version_number(db, topic.id), and the row built
UpdateNumber(c, user, name, content, comment) ==
    LET rows == topics[name]
        next_ver == next_version_number(rows)
    IN
    /\ sessions[c].pc = "idle"
    /\ rows # <<>>
    /\ Len(rows) <= MaxVersions
    /\ sessions' = [sessions EXCEPT ![c] =
            [pc |-> "numbered", topic |-> name, prev |-> Latest(rows),
             row |-> Row(next_ver, content, user, VersionComment(comment, next_ver))]]
    /\ UNCHANGED <<plugins, stack, topics, acls, resp, boot, fncall, reset>>

\* await db.flush(): the INSERT of the new row
UpdateFlush(c) ==
    LET s == sessions[c]
        committed == {topics[s.topic][i].version : i \in 1..Len(topics[s.topic])}
        held == {sessions[d].row.version :
                    d \in {d \in Calls \ {c} : sessions[d].pc = "flushed"
                                                /\ sessions[d].topic = s.topic}}
    IN
    /\ s.pc = "numbered"
    /\ s.row.version \notin held
    /\ sessions' = [sessions EXCEPT ![c] =
            IF s.row.version \in committed
            THEN [s EXCEPT !.pc = "done"] @@ [status |-> 500]
            ELSE [s EXCEPT !.pc = "flushed"]]
    /\ UNCHANGED <<plugins, stack, topics, acls, resp, boot, fncall, reset>>

\* the request ends and its session is committed: the new row and the
\* prev.rendered = None of the row that was the latest become visible
UpdateCommit(c) ==
    LET s == sessions[c]
        rows == topics[s.topic]
    IN
    /\ s.pc = "flushed"
    /\ topics' = [topics EXCEPT ![s.topic] =
                    Append([rows EXCEPT ![s.prev].rendered = NoRender], s.row)]
    /\ sessions' = [sessions EXCEPT ![c] = [s EXCEPT !.pc = "done"] @@ [status |-> 200]]
    /\ UNCHANGED <<plugins, stack, acls, resp, boot, fncall, reset>>

\* the caller has its response
UpdateReturn(c) ==
    /\ sessions[c].pc = "done"
    /\ sessions' = [sessions EXCEPT ![c] = IdleSession]
    /\ UNCHANGED <<plugins, stack, topics, acls, resp, boot, fncall, reset>>

InitUpdates ==
    /\ plugins = <<>>
    /\ stack = [c \in Calls |-> <<>>]
    /\ topics = [n \in TopicNames |->
                    <<Row(1, StoredContent.Home, "alice", InitialComment(""))>>]
    /\ acls = [r \in ({"web"} \cup {"topic:" \o n : n \in TopicNames}) |-> {}]
    /\ resp = Response("none", None, 0)
    /\ reset = NoResets
    /\ sessions = [c \in Calls |-> IdleSession]
    /\ NotBooted

NextUpdates ==
    \/ \E c \in Calls, user \in Users, name \in TopicNames,
          content \in RouteContents, comment \in Comments :
            UpdateNumber(c, user, name, content, comment)
    \/ \E c \in Calls : UpdateFlush(c)
    \/ \E c \in Calls : UpdateCommit(c)
    \/ \E c \in Calls : UpdateReturn(c)

SpecUpdates == InitUpdates /\ [][NextUpdates]_vars

(***************************************************************************)
(* Properties of the helper functions.                                     *)
(***************************************************************************)
\* an occurrence %NAME% or %NAME{...}% of a user-identity macro
HasUserMacroOccurrence(s) ==
    \E i \in 1..Len(s) :
        /\ i + 2 <= Len(s)
        /\ s[i] = "%"
        /\ s[i + 1] \in USER_SPECIFIC_MACROS
        /\ \/ s[i + 2] = "%"
           \/ /\ s[i + 2] = "{"
              /\ \E j \in (i + 3)..(Len(s) - 1) : s[j] = "}" /\ s[j + 1] = "%"

\* C12 as stated: _has_user_macros(content) is true exactly when content holds
\* an occurrence %NAME% or %NAME{...}% of a user-identity macro.
C12_FlagsExactlyOccurrences ==
    fncall.fn = "_has_user_macros" =>
        (fncall.result <=> HasUserMacroOccurrence(fncall.content))

\* "%", a user-identity macro name and then "%" or "{", closed or not
HasUserMacroOpening(s) ==
    \E i \in 1..(Len(s) - 2), name \in USER_SPECIFIC_MACROS :
        SubSeq(s, i, i + 2) \in {<<"%", name, "%">>, <<"%", name, "{">>}

\* C12: _has_user_macros(content) is true for every content that holds an
\* occurrence %NAME% or %NAME{...}% of a user-identity macro; it is true exactly
\* when content holds %NAME% or the opening %NAME{ of such a macro.
C12_FlagsMacroOpenings ==
    fncall.fn = "_has_user_macros" =>
        /\ HasUserMacroOccurrence(fncall.content) => fncall.result
        /\ fncall.result <=> HasUserMacroOpening(fncall.content)

C12_Witness ==
    /\ fncall.fn = "_has_user_macros"
    /\ fncall.result
    /\ HasUserMacroOccurrence(fncall.content)
    /\ \E i \in 1..Len(fncall.content) : fncall.content[i] = "{"

\* a non-empty text without "*", "_" and whitespace
PlainText(s) == s # <<>> /\ \A i \in 1..Len(s) : s[i] \notin {"*", "_"} \cup Whitespace

\* C13: for a non-empty text t without '*', '_' and whitespace,
\* _tml_to_markdown("__t__") returns "***t***".
C13_BoldItalicKept ==
    ( /\ fncall.fn = "_tml_to_markdown"
      /\ Len(fncall.text) >= 5
      /\ SubSeq(fncall.text, 1, 2) = <<"_", "_">>
      /\ SubSeq(fncall.text, Len(fncall.text) - 1, Len(fncall.text)) = <<"_", "_">>
      /\ PlainText(SubSeq(fncall.text, 3, Len(fncall.text) - 2)) )
    => fncall.result = <<"*", "*", "*">> \o SubSeq(fncall.text, 3, Len(fncall.text) - 2)
                        \o <<"*", "*", "*">>

\* the link the conversion is to emit for the target and label it is given
ClaimedLink(target, label, default_web) ==
    LET display == IF label # <<>> THEN Join(label) ELSE Join(target)
        dots == {i \in 1..Len(target) : target[i] = "."}
        web == IF dots = {} THEN default_web ELSE Join(SubSeq(target, 1, Min(dots) - 1))
        topic == IF dots = {} THEN Join(target)
                 ELSE Join(SubSeq(target, Min(dots) + 1, Len(target)))
    IN  IF target # <<>> /\ target[1] \in {"http://", "https://", "ftp://"}
        THEN MdLink(display, target)
        ELSE MdLink(display, BaseUrl \o <<"/view/", web, "/", topic>>)

BracketCall == fncall.fn = "_expand_bracket_links"

\* C14 as stated: every [[target]] or [[target][label]] is replaced by the link
\* for the target and the label as they stand between the brackets.
C14_BracketLinkAsWritten ==
    BracketCall =>
        /\ Len(fncall.result) = Len(fncall.text)
        /\ fncall.result[1] = fncall.text[1]
        /\ fncall.result[2] = ClaimedLink(fncall.text[2].target, fncall.text[2].label,
                                          fncall.default_web)

\* C14: every [[target]] or [[target][label]] is replaced by the link for the
\* target and the label with the whitespace at their ends removed (a label of
\* whitespace only counting as no label): [label-or-target](target) when the
\* target starts with http://, https:// or ftp://, and otherwise
\* [label-or-target]({base_url}/view/{web}/{topic}) with the target split on
\* its first '.', the current web and the whole target when it has none; the
\* text around the link is left as it is.
C14_BracketLinkTrimmed ==
    BracketCall =>
        /\ Len(fncall.result) = Len(fncall.text)
        /\ fncall.result[1] = fncall.text[1]
        /\ fncall.result[2] = ClaimedLink(strip(fncall.text[2].target),
                                          strip(fncall.text[2].label),
                                          fncall.default_web)

C14_Witness ==
    /\ BracketCall
    /\ fncall.text[2].target = <<" ", "Main", ".", "Foo", " ">>
    /\ fncall.text[2].label = <<" ", "Label", " ">>
    /\ fncall.default_web = "Sandbox"
    /\ fncall.result[2].display = "Label"
    /\ fncall.result[2].url = BaseUrl \o <<"/view/", "Main", "/", "Foo">>

\* C15: when the data-access handle is absent or its query raises, the linker's
\* existence check returns True and %IF{"istopic ..."}% returns its else value;
\* neither call raises.
C15_FailOpenFailClosed ==
    /\ (fncall.fn = "_topic_exists" /\ fncall.db \in {None, "raises"}) =>
            (~fncall.outcome.raised /\ fncall.outcome.value = TRUE)
    /\ ( /\ fncall.fn = "if_macro"
         /\ fncall.db \in {None, "raises"}
         /\ strip(fncall.condition) # <<>>
         /\ Head(strip(fncall.condition)) = "istopic " ) =>
            (~fncall.outcome.raised /\ fncall.outcome.value = "no")
    /\ fncall.fn \in {"_topic_exists", "if_macro"} => ~fncall.outcome.raised

C15_Witness ==
    /\ fncall.fn = "if_macro"
    /\ fncall.db = "raises"
    /\ fncall.condition = <<"istopic ", "Home">>
    /\ fncall.outcome = Returned("no")

\* C16: %USERINFO% with a username formats the record of the user of that name
\* and returns "(unknown user)" when there is no record of that name to format,
\* whoever the current user is; without a username it formats the current
\* user, and returns "(unknown user)" for an anonymous viewer.
C16_UserInfoOfNamedUser ==
    fncall.fn = "userinfo_macro" =>
        LET found == /\ fncall.db = "db"
                     /\ fncall.target \in DOMAIN UsersTable
        IN  /\ (fncall.target # "" /\ found) =>
                    fncall.result = format_user(fncall.fmt, UsersTable[fncall.target])
            /\ (fncall.target # "" /\ ~found) => fncall.result = "(unknown user)"
            /\ (fncall.target = "" /\ fncall.user # None) =>
                    fncall.result = format_user(fncall.fmt, UsersTable[fncall.user])
            /\ (fncall.target = "" /\ fncall.user = None) =>
                    fncall.result = "(unknown user)"

(***************************************************************************)
(* Properties of one render call.                                          *)
(***************************************************************************)
AllFrames == UNION {{stack[c][i] : i \in 1..Len(stack[c])} : c \in Calls}

CallsOf(f, hook) == SelectSeq(f.hooks, LAMBDA h : h.hook = hook)

StageDone(f, stage) == \E i \in 1..Len(f.trace) : f.trace[i].stage = stage

\* C1: in every render of non-empty content the stages run once each, in the
\* order PreRenderHooks, MacroExpand, BracketLinks, TmlNormalize,
\* MarkdownToHtml, WikiWordLink, PostRenderHooks; the first stage is given the
\* raw content and every later stage the output of the stage before it; the
\* render returns only after all seven, with the output of the last.
C1_StagesInOrder ==
    \A f \in AllFrames :
        LET n == Len(f.trace) IN
        /\ n <= Len(StageOrder)
        /\ \A i \in 1..n : f.trace[i].stage = StageOrder[i]
        /\ n >= 1 => f.trace[1].in = f.raw
        /\ \A i \in 2..n : f.trace[i].in = f.trace[i - 1].out
        /\ f.pc \notin {"Done", "Raised"} => f.pc = StageOrder[n + 1]
        /\ (f.pc = "Done" /\ ~IsEmpty(f.raw)) =>
                /\ n = Len(StageOrder)
                /\ f.result = f.trace[n].out

C1_Witness ==
    \E f \in AllFrames :
        /\ f.pc = "Done"
        /\ Len(f.trace) = Len(StageOrder)
        /\ \A i \in 1..Len(f.trace) : f.trace[i].in # f.trace[i].out

\* C2: a plugin hook that raises is caught in the dispatcher: the render never
\* ends by raising, the next plugin's hook runs and is given the text the
\* failing hook was given, every registered plugin's hook has run once the
\* dispatch is over, and the render goes on to return its HTML.
C2_HookFaultIsolated ==
    \A f \in AllFrames :
        /\ f.pc # "Raised"
        /\ \A i \in 1..Len(f.hooks) :
                f.hooks[i].raised =>
                    /\ f.hooks[i].out = f.hooks[i].in
                    /\ (i < Len(f.hooks) /\ f.hooks[i + 1].hook = f.hooks[i].hook) =>
                            /\ f.hooks[i + 1].i = f.hooks[i].i + 1
                            /\ f.hooks[i + 1].in = f.hooks[i].in
        /\ \A i \in 1..Len(f.hooks) :
                (f.hooks[i].raised /\ f.hooks[i].i < Len(plugins)) =>
                    \/ f.pc = (IF f.hooks[i].hook = "pre_render"
                               THEN "PreRenderHooks" ELSE "PostRenderHooks")
                    \/ \E j \in (i + 1)..Len(f.hooks) :
                            /\ f.hooks[j].hook = f.hooks[i].hook
                            /\ f.hooks[j].i = f.hooks[i].i + 1
        /\ (f.pc = "Done" /\ \E i \in 1..Len(f.hooks) : f.hooks[i].raised) =>
                /\ Len(f.trace) = Len(StageOrder)
                /\ f.result = add_external_link_targets(f.harden_in)

C2_Witness ==
    \E f \in AllFrames :
        /\ f.pc = "Done"
        /\ \E i, j \in 1..Len(f.hooks) :
                /\ i < j
                /\ f.hooks[i].raised
                /\ f.hooks[i].hook = "post_render"
                /\ f.hooks[j].hook = "post_render"
                /\ ~f.hooks[j].raised

\* C3: a topic that includes itself is cut off at the maximum include depth:
\* a render call never nests more than MAX_INCLUDE_DEPTH + 1 render() frames.
C3_IncludeNestingBounded ==
    \A c \in Calls : Len(stack[c]) <= MAX_INCLUDE_DEPTH + 1

\* C4: the context a nested render builds for its macro handlers has the
\* include depth of the child context that was handed to _render_fn.
C4_NestedDepthSeen ==
    \A f \in AllFrames : f.ctx.built => f.ctx.include_depth = f.depth

DispatchInOrder(f, hook, stage) ==
    LET calls == CallsOf(f, hook)
        n == Len(calls)
        e == CHOOSE e \in {f.trace[i] : i \in 1..Len(f.trace)} : e.stage = stage
        result == IF hook = "post_render" THEN f.harden_in ELSE e.out
    IN  /\ n <= Len(plugins)
        /\ \A j \in 1..n :
                /\ calls[j].i = j
                /\ calls[j].plugin = plugins[j]
                /\ ~calls[j].raised =>
                        calls[j].out = CallHook(plugins[j], hook, calls[j].in, f.ctx).value
        /\ \A j \in 2..n : ~calls[j - 1].raised => calls[j].in = calls[j - 1].out
        /\ StageDone(f, stage) =>
                /\ n = (IF f.pm THEN Len(plugins) ELSE 0)
                /\ n >= 1 => calls[1].in = e.in
                /\ (n >= 1 /\ ~calls[n].raised) => result = calls[n].out
                /\ n = 0 => result = e.in
                /\ f.pm => result = Pipelined(plugins, hook, e.in, f.ctx)

\* C8: pre_render and post_render call the plugins in registration order, each
\* plugin's hook is given what the hook before it returned, and the result of
\* the dispatch is what the last plugin returned (the input itself when no
\* plugin is registered).
C8_DispatchInOrder ==
    \A f \in AllFrames :
        /\ DispatchInOrder(f, "pre_render", "PreRenderHooks")
        /\ DispatchInOrder(f, "post_render", "PostRenderHooks")

C8_Witness ==
    \E f \in AllFrames :
        LET calls == CallsOf(f, "post_render") IN
        /\ f.pc = "Done"
        /\ Len(calls) = 2
        /\ plugins[1] # plugins[2]
        /\ ~calls[1].raised /\ ~calls[2].raised
        /\ calls[1].out # calls[1].in
        /\ calls[2].out # calls[2].in
        /\ f.harden_in = calls[2].out

\* C9: a render of empty content returns the empty string at once: it builds
\* no context, runs no stage, calls no plugin hook, asks for no existence
\* check and hardens no link.
C9_EmptyShortCircuit ==
    \A f \in AllFrames :
        f.raw = <<>> =>
            /\ f.pc = "Done"
            /\ f.result = <<>>
            /\ f.ctx = NoCtx
            /\ f.trace = <<>>
            /\ f.hooks = <<>>
            /\ f.checks = <<>>
            /\ f.hardened = 0

C9_Witness ==
    \E f \in AllFrames :
        /\ f.raw = <<>>
        /\ f.pc = "Done"
        /\ f.pm
        /\ plugins # <<>>

HasTargetAttribute(tok) ==
    \E i \in 1..Len(tok.before \o tok.after) : (tok.before \o tok.after)[i].name = "target"

HardenedAsClaimed(html) ==
    [i \in 1..Len(html) |->
        IF /\ html[i].k = "a"
           /\ Head(html[i].href) \in {"http://", "https://"}
           /\ ~HasTargetAttribute(html[i])
        THEN [html[i] EXCEPT !.after = @ \o <<Attr("target", "_blank"),
                                              Attr("rel", "noopener noreferrer")>>]
        ELSE html[i]]

\* C10: every render of non-empty content hardens external links once, as its
\* last step, on the output of the post_render hooks; the result has
\* target="_blank" rel="noopener noreferrer" added to every anchor with an
\* absolute http(s) href and no target attribute, and is otherwise unchanged.
C10_ExternalLinksHardened ==
    \A f \in AllFrames :
        (f.pc = "Done" /\ f.raw # <<>>) =>
            /\ f.hardened = 1
            /\ f.result = HardenedAsClaimed(f.harden_in)

\* C7: however two render calls interleave, each uses its own context: the
\* context of every frame of a call holds the web, topic and current user the
\* call was given, every plugin hook of the call sees that context, and the
\* call returns what it returns when it runs alone.
C7_CallsIsolated ==
    \A c \in Calls :
        \A n \in 1..Len(stack[c]) :
            LET f == stack[c][n] IN
            /\ f.user = stack[c][1].user
            /\ f.web = stack[c][1].web
            /\ f.ctx.built =>
                    /\ f.ctx.web = f.web
                    /\ f.ctx.topic = f.topic
                    /\ f.ctx.current_user = f.user
            /\ \A i \in 1..Len(f.hooks) :
                    f.hooks[i].seen = Join(<<f.web, ".", f.topic, ":", UserName(f.user)>>)
            /\ f.pc = "Done" =>
                    f.result = RenderAlone(f.web, f.topic, StoredContent[f.topic],
                                           f.user, f.pm)

C7_Witness ==
    /\ Active(1) /\ Active(2)
    /\ stack[1][1].user # stack[2][1].user
    /\ stack[1][1].topic # stack[2][1].topic
    /\ stack[1][1].pc = "Done"
    /\ CallsOf(stack[1][1], "post_render") # <<>>
    /\ Len(stack[2]) = 1
    /\ stack[2][1].pc = "Done"
    /\ CallsOf(stack[2][1], "post_render") # <<>>
    /\ stack[1][1].result # stack[2][1].result

(***************************************************************************)
(* Properties of the constructor.                                          *)
(***************************************************************************)
\* C11: however many pipelines are constructed, register_all_builtins has run
\* exactly once as soon as one pipeline exists: the first construction
\* registers the built-ins and sets the flag, a later one leaves the registry
\* as it is.
C11_BuiltinsRegisteredOnce ==
    /\ Len(pipelines) = 0 => (macro_registry = <<>> /\ ~builtins_registered)
    /\ Len(pipelines) >= 1 => (macro_registry = <<BuiltinMacros>> /\ builtins_registered)

C11_Witness ==
    /\ Len(pipelines) >= 2
    /\ macro_registry = <<BuiltinMacros>>
    /\ \E c \in Calls : Active(c) /\ Top(c).pc = "Done"

Saved(row) == <<row.version, row.content, row.author>>

ExpectedLog(hooks) ==
    [i \in 1..(Len(hooks) * Len(plugins)) |->
        LET h == hooks[((i - 1) \div Len(plugins)) + 1]
            p == plugins[((i - 1) % Len(plugins)) + 1]
        IN  [hook |-> h, plugin |-> p, raised |-> (p = "Faulty")]]

HooksOf(route) ==
    CASE route = "create_topic" -> <<"after_create", "after_save">>
      [] route = "update_topic" -> <<"after_save">>
      [] route = "delete_topic" -> <<"after_delete">>
      [] route = "after_upload" -> <<"after_upload">>
      [] OTHER -> <<>>

\* C17: a lifecycle hook that raises does not stop the hooks of the plugins
\* registered after it and does not fail the request: create, update and
\* delete never end with an error from a hook, every plugin is notified of
\* every hook in order, and what is saved and returned is the topic as created,
\* updated or deleted.
C17_LifecycleFireAndForget ==
    /\ resp.status # 500
    /\ resp.status \in {200, 201} => resp.hooks = ExpectedLog(HooksOf(resp.route))
    /\ (resp.route = "create_topic" /\ resp.status = 201) =>
            /\ Len(topics[resp.topic]) = 1
            /\ Saved(topics[resp.topic][1]) = <<1, resp.content, resp.user>>
            /\ resp.version = 1
    /\ (resp.route = "update_topic" /\ resp.status = 200) =>
            LET rows == topics[resp.topic] IN
            /\ Saved(rows[Len(rows)]) = <<resp.version, resp.content, resp.user>>
            /\ rows[Len(rows)].rendered = resp.rendered
            /\ resp.version = Len(rows)
    /\ (resp.route = "delete_topic" /\ resp.status = 200) => topics[resp.topic] = <<>>

C17_Witness ==
    /\ resp.route = "update_topic"
    /\ resp.status = 200
    /\ Len(resp.hooks) = 2
    /\ resp.hooks[1].raised
    /\ ~resp.hooks[2].raised

\* what a version row records, apart from its render cache
Recorded(row) == <<row.version, row.content, row.author, row.comment>>

\* C18: the version history of a topic only grows at its end: its version
\* numbers are 1..n, a successful create_topic writes the single version 1, a
\* successful update_topic adds exactly one version numbered n+1 with the
\* submitted content, author and comment, and no step changes the content,
\* author or comment of a version already there (deleting the topic ends
\* its history).
C18_HistoryAppendOnly ==
    [][\A n \in TopicNames :
        LET old == topics[n]
            new == topics'[n]
            added == Len(new) = Len(old) + 1
        IN
        \/ resp'.route = "delete_topic" /\ new = <<>>
        \/ /\ \A i \in 1..Len(new) : new[i].version = i
           /\ Len(new) = Len(old) \/ added
           /\ \A i \in 1..Len(old) : Recorded(new[i]) = Recorded(old[i])
           /\ added <=> /\ resp'.topic = n
                        /\ \/ resp'.route = "create_topic" /\ resp'.status = 201
                           \/ resp'.route = "update_topic" /\ resp'.status = 200
           /\ added =>
                /\ resp'.route = "create_topic" <=> old = <<>>
                /\ Saved(new[Len(new)]) = <<Len(old) + 1, resp'.content, resp'.user>>
                /\ new[Len(new)].comment \in
                        Comments \cup {"Initial version",
                                        "Version " \o ToString(Len(new))}
    ]_vars

C18_Witness ==
    /\ resp.route = "update_topic"
    /\ resp.status = 200
    /\ Len(topics[resp.topic]) = 2
    /\ topics[resp.topic][1].comment = "Initial version"
    /\ topics[resp.topic][2].comment = "Version 2"
    /\ topics[resp.topic][1].content # topics[resp.topic][2].content
    /\ topics[resp.topic][1].author # topics[resp.topic][2].author

IsAdmin(user) == user # None /\ UserTable[user].is_admin

\* the entry is for the permission and names everyone, the user or a group
\* of the user
Matches(e, permission, user) ==
    /\ e.permission = permission
    /\ \/ e.principal = "*"
       \/ /\ user # None
          /\ \/ e.principal = "user:" \o UserTable[user].username
             \/ \E g \in UserTable[user].groups : e.principal = "group:" \o g

\* the entries a check evaluates
Consulted(c) ==
    IF c.fn = "check_permission" THEN c.entries
    ELSE IF c.topic_entries # {} THEN c.topic_entries
    ELSE c.web_entries

\* C19: for a user who is not an admin, a matching DENY entry makes the check
\* return false whatever ALLOW entries match, and when no entry matches the
\* check returns true exactly for the permission 'view'.
C19_DenyOverridesAllow ==
    (fncall.fn \in {"check_permission", "check_topic_permission"}
        /\ ~IsAdmin(fncall.user)) =>
        LET matching == {e \in Consulted(fncall) :
                            Matches(e, fncall.permission, fncall.user)}
        IN  /\ (\E e \in matching : ~e.allow) => ~fncall.result
            /\ matching = {} => (fncall.result <=> fncall.permission = "view")

C19_Witness ==
    /\ fncall.fn = "check_permission"
    /\ fncall.user = "alice"
    /\ fncall.permission = "edit"
    /\ Ace("user:alice", "edit", TRUE) \in fncall.entries
    /\ Ace("group:Dev", "edit", FALSE) \in fncall.entries
    /\ ~fncall.result

\* the decision the entries of one resource and the default give
Decided(entries, permission, user) ==
    LET matching == {e \in entries : Matches(e, permission, user)}
    IN  IF \E e \in matching : ~e.allow THEN FALSE
        ELSE IF matching # {} THEN TRUE
        ELSE permission = "view"

C21_AdminsBypassAcl ==
    (fncall.fn \in {"check_permission", "check_topic_permission"}
        /\ IsAdmin(fncall.user)) => fncall.result

\* the step is a call of validate_reset_token or apply_reset_token
ResetTokenCall == fncall = NoCall /\ fncall'.fn \in {"validate_reset_token", "apply_reset_token"}

\* C22: once apply_reset_token has succeeded with a token, every later
\* validate_reset_token or apply_reset_token with that token raises HTTP 400
\* and leaves every password hash as it was.
C22_ResetTokenSingleUse ==
    [][(ResetTokenCall /\ fncall'.token \in reset.used) =>
            /\ fncall'.status = 400
            /\ reset'.hashes = reset.hashes
            /\ reset'.used = reset.used]_vars

C22_Witness ==
    /\ fncall.fn = "apply_reset_token"
    /\ fncall.token \in reset.used
    /\ fncall.status = 400
    /\ \E u \in DOMAIN reset.hashes : reset.hashes[u] # hash_password("old")

\* C23: a token expires one hour after it was issued; validate_reset_token or
\* apply_reset_token called after the expiry time of the token raises HTTP
\* 400, removes the token and leaves every password hash as it was, and a
\* call that succeeds is made no later than the expiry time.
C23_ExpiredTokenRejected ==
    [][/\ \A tk \in reset'.tokens \ reset.tokens :
                tk.expires_at = reset.now + 1
       /\ ResetTokenCall =>
            \A tk \in reset.tokens :
                tk.token = fncall'.token =>
                    IF reset.now > tk.expires_at
                    THEN /\ fncall'.status = 400
                         /\ tk \notin reset'.tokens
                         /\ reset'.hashes = reset.hashes
                    ELSE fncall'.status = 200 <=> reset.active[tk.user_id]]_vars

C23_Witness ==
    /\ fncall.fn = "apply_reset_token"
    /\ fncall.status = 400
    /\ fncall.detail = "This reset link has expired. Please request a new one."
    /\ \A tk \in reset.tokens : tk.token # fncall.token

\* C24: create_reset_token returns None, without raising and without a change
\* to the tokens, when no active user has the email, and
\* forgot_password_submit answers with the same confirmation whether or not
\* the email matched a user.
C24_ResetRequestKeepsSilent ==
    [][/\ (fncall = NoCall /\ fncall'.fn = "create_reset_token"
            /\ ~\E u \in DOMAIN Accounts :
                    Accounts[u].email = fncall'.email /\ reset.active[u]) =>
                /\ fncall'.user = None
                /\ ~fncall'.raised
                /\ reset'.tokens = reset.tokens
       /\ (fncall = NoCall /\ fncall'.fn = "forgot_password_submit") =>
                /\ fncall'.response =
                        [template |-> "auth/forgot_password.html", status |-> 200,
                         submitted |-> TRUE, error |-> ""]
                /\ (~\E u \in DOMAIN Accounts :
                        Accounts[u].email = fncall'.email /\ reset.active[u]) =>
                            reset'.tokens = reset.tokens /\ ~fncall'.mailed]_vars

C24_Witness ==
    /\ fncall.fn = "forgot_password_submit"
    /\ fncall.email = "b@x"
    /\ ~reset.active["bob"]
    /\ ~fncall.mailed
    /\ reset.tokens # {}

\* the HTML the API pipeline produces from a content, for any caller
RendersOf(name, content) ==
    {Cached(ApiRender(name, content, u)) : u \in Users \cup {None}}

\* C25: a rendered value stored on a version row is HTML produced from that
\* row's content; only the latest row of a topic holds one, the one of the
\* previously latest row being cleared by update_topic; and a view of the
\* latest version served from the cache returns HTML of the latest content.
C25_CacheIsOfOwnContent ==
    /\ \A n \in TopicNames : \A i \in 1..Len(topics[n]) :
            topics[n][i].rendered.set =>
                /\ topics[n][i].rendered \in RendersOf(n, topics[n][i].content)
                /\ i = Len(topics[n])
    /\ (resp.route \in {"get_topic", "view_topic"} /\ resp.status = 200
            /\ resp.from_cache) =>
            LET rows == topics[resp.topic] IN
            /\ resp.version = Len(rows)
            /\ resp.rendered \in RendersOf(resp.topic, rows[Len(rows)].content)

C25_Witness ==
    /\ resp.route = "get_topic"
    /\ resp.status = 200
    /\ resp.from_cache
    /\ Len(topics[resp.topic]) = 2
    /\ topics[resp.topic][1].content # topics[resp.topic][2].content
    /\ ~topics[resp.topic][1].rendered.set
    /\ resp.rendered = topics[resp.topic][2].rendered

\* C26: of two update_topic calls in flight on a topic, whatever the
\* interleaving, none fails: each call that has ended has status 200 and its
\* own row is in the history under the number it took.
C26_ConcurrentUpdatesBothAppend ==
    \A c \in Calls :
        sessions[c].pc = "done" =>
            /\ sessions[c].status = 200
            /\ \E i \in 1..Len(topics[sessions[c].topic]) :
                    Recorded(topics[sessions[c].topic][i]) = Recorded(sessions[c].row)

\* the contents of versions a response carries
ContentsReturned(r) ==
    CASE r.route \in {"get_topic", "get_topic_raw"} -> {r.content}
      [] r.route = "get_history" -> {r.body[i].content : i \in 1..Len(r.body)}
      [] r.route = "get_diff" ->
            UNION {{r.body[i].lines[j] : j \in 1..Len(r.body[i].lines)} :
                        i \in 1..Len(r.body)}
      [] OTHER -> {}

\* C27: a topics API route that returns the content of a version (the
\* rendered view, the raw view, the history, the diff) returns it only to a
\* caller for whom check_topic_permission(topic, web, 'view', caller) is true.
C27_ContentOnlyToViewers ==
    (resp.status = 200 /\ ContentsReturned(resp) # {}) =>
        TopicAllowed(resp.topic, "view", resp.user)

====
